---- MODULE Spec2Model ----
(***************************************************************************)
(* Model of the EdgeBet scoring backend (src/index.js, the v2.1 block that *)
(* holds the seven agents, lines 575-1379, plus the scan handlers of the   *)
(* other two blocks).                                                      *)
(*                                                                         *)
(* Numbers.  A JavaScript number is modelled by an exact rational <<n, d>> *)
(* in lowest terms with d > 0, or by NaN == <<0, 0>>.  American prices are *)
(* never 0 in the inputs, so no division produces an infinity; 0/0 yields  *)
(* NaN as in IEEE arithmetic.  Every comparison with NaN is false.         *)
(* Rounding error of binary floating point is not modelled: the arithmetic *)
(* is the real-number arithmetic the code denotes.                         *)
(*                                                                         *)
(* A field the feed leaves out of a JSON object (undefined in JavaScript)  *)
(* is a field outside the DOMAIN of the record that models the object.     *)
(***************************************************************************)
EXTENDS Integers, Sequences, FiniteSets, TLC

VARIABLES
    clock,        \* Date.now(), in milliseconds
    lineHistory,  \* the Map lineHistory: gameId -> [timestamps, lines, books]
    pc,           \* position of the run / of the scan handler
    raw,          \* the raw games handed to the pipeline (per sport in a scan)
    games,        \* the NormalizedGames parseGame built
    out,          \* what the run or the handler produced
    users         \* the Map users of the tier-limited variant: userId -> user

vars == <<clock, lineHistory, pc, raw, games, out, users>>

-----------------------------------------------------------------------------
(* Exact arithmetic for JavaScript numbers *)

Abs(i) == IF i < 0 THEN -i ELSE i

RECURSIVE GCD(_, _)
GCD(a, b) == IF b = 0 THEN a ELSE GCD(b, a % b)

NaN == <<0, 0>>

\* undefined, a field the feed left out; in arithmetic it converts to NaN
Undefined == <<>>

IsNaN(x) == Len(x) < 2 \/ x[2] = 0

\* the number n/d, d # 0, in lowest terms with a positive denominator
Num(n, d) ==
    LET g == GCD(Abs(n), Abs(d))
        s == IF d < 0 THEN -1 ELSE 1
    IN  <<(s * n) \div g, (s * d) \div g>>

Z(i) == <<i, 1>>

Add(x, y) == IF IsNaN(x) \/ IsNaN(y) THEN NaN
             ELSE Num(x[1] * y[2] + y[1] * x[2], x[2] * y[2])

Neg(x) == IF IsNaN(x) THEN NaN ELSE <<-x[1], x[2]>>

Sub(x, y) == Add(x, Neg(y))

Mul(x, y) == IF IsNaN(x) \/ IsNaN(y) THEN NaN
             ELSE Num(x[1] * y[1], x[2] * y[2])

\* x / y; 0/0 is NaN, and y = 0 with x # 0 does not arise (see the header)
Div(x, y) == IF IsNaN(x) \/ IsNaN(y) \/ y[1] = 0 THEN NaN
             ELSE Num(x[1] * y[2], x[2] * y[1])

Lt(x, y) == ~IsNaN(x) /\ ~IsNaN(y) /\ x[1] * y[2] < y[1] * x[2]
Le(x, y) == ~IsNaN(x) /\ ~IsNaN(y) /\ x[1] * y[2] <= y[1] * x[2]
Gt(x, y) == Lt(y, x)
Ge(x, y) == Le(y, x)

\* Math.abs
MathAbs(x) == IF IsNaN(x) THEN NaN ELSE <<Abs(x[1]), x[2]>>

\* Math.max(a, b) and Math.min(a, b): NaN when either argument is NaN
Max2(x, y) == IF IsNaN(x) \/ IsNaN(y) THEN NaN ELSE IF Lt(x, y) THEN y ELSE x
Min2(x, y) == IF IsNaN(x) \/ IsNaN(y) THEN NaN ELSE IF Lt(y, x) THEN y ELSE x

\* Math.max(...arr) and Math.min(...arr) of a non-empty array
RECURSIVE MathMax(_)
MathMax(arr) == IF Len(arr) = 1 THEN arr[1] ELSE Max2(arr[1], MathMax(Tail(arr)))

RECURSIVE MathMin(_)
MathMin(arr) == IF Len(arr) = 1 THEN arr[1] ELSE Min2(arr[1], MathMin(Tail(arr)))

\* Math.floor
Floor(x) == IF IsNaN(x) THEN NaN ELSE Z(x[1] \div x[2])

\* Math.round(x): the integer nearest to x, ties toward +infinity
MathRound(x) == Floor(Add(x, Num(1, 2)))

RECURSIVE Pow10(_)
Pow10(k) == IF k = 0 THEN 1 ELSE 10 * Pow10(k - 1)

\* parseFloat(x.toFixed(k)): x rounded to k decimals, ties away from zero
ToFixed(x, k) ==
    IF IsNaN(x) THEN NaN
    ELSE LET m == MathRound(Mul(MathAbs(x), Z(Pow10(k))))[1]
         IN  Num((IF x[1] < 0 THEN -1 ELSE 1) * m, Pow10(k))

\* arr.map(f) for a sequence
Map(arr, f(_)) == [i \in 1..Len(arr) |-> f(arr[i])]

\* arr.filter(p)
Filter(arr, p(_)) == SelectSeq(arr, p)

\* arr.reduce((s, v) => s + v, 0)
RECURSIVE Sum(_)
Sum(arr) == IF arr = <<>> THEN Z(0) ELSE Add(Head(arr), Sum(Tail(arr)))

\* arr.find(p) as the index of the first match, 0 when there is none
FindIdx(arr, p(_)) ==
    LET hits == {i \in 1..Len(arr) : p(arr[i])}
    IN  IF hits = {} THEN 0 ELSE CHOOSE i \in hits : \A j \in hits : i <= j

\* o.f, undefined when the object has no such field
Field(o, f) == IF f \in DOMAIN o THEN o[f] ELSE Undefined

-----------------------------------------------------------------------------
(* Configuration, src/index.js 590-609 *)

\* SHARP_BOOKS
SHARP_BOOKS == {"pinnacle", "betcris", "betonlineag", "bovada", "lowvig"}

-----------------------------------------------------------------------------
(* Line history, src/index.js 611-627 *)

\* "Only record every 5 minutes max": the window in milliseconds
RecordWindowMs == 300000

EmptyHistory == [timestamps |-> <<>>, lines |-> <<>>, books |-> <<>>]

\* lineHistory.get(gameId) once recordLineMovement has ensured the entry
HistoryOf(hist, gameId) ==
    IF gameId \in DOMAIN hist THEN hist[gameId] ELSE EmptyHistory

\* recordLineMovement without the 5-minute test
recordLineMovementAlways(hist, now, gameId, line, book) ==
    LET history == HistoryOf(hist, gameId)
        rec == [timestamps |-> Append(history.timestamps, now),
                lines |-> Append(history.lines, line),
                books |-> Append(history.books, book)]
    IN  [id \in DOMAIN hist \cup {gameId} |-> IF id = gameId THEN rec ELSE hist[id]]

\* recordLineMovement(gameId, line, book) at Date.now() = now: the new map
recordLineMovement(hist, now, gameId, line, book) ==
    LET history == HistoryOf(hist, gameId)
        n == Len(history.timestamps)
        rec == IF n = 0 \/ now - history.timestamps[n] > RecordWindowMs
               THEN [timestamps |-> Append(history.timestamps, now),
                     lines |-> Append(history.lines, line),
                     books |-> Append(history.books, book)]
               ELSE history
    IN  [id \in DOMAIN hist \cup {gameId} |-> IF id = gameId THEN rec ELSE hist[id]]

-----------------------------------------------------------------------------
(* Game parser, src/index.js 691-728 *)

\* one market of one bookmaker: the lines it adds, and the history it records
ParseMarket(acc, g, bk, mkt, gameId, now) ==
    LET isSharp == bk.key \in SHARP_BOOKS
        home == FindIdx(mkt.outcomes, LAMBDA o : o.name = g.home_team)
        away == FindIdx(mkt.outcomes, LAMBDA o : o.name = g.away_team)
        over == FindIdx(mkt.outcomes, LAMBDA o : o.name = "Over")
        under == FindIdx(mkt.outcomes, LAMBDA o : o.name = "Under")
        oc == mkt.outcomes
    IN  IF mkt.key = "spreads" /\ home # 0 /\ away # 0
        THEN [acc EXCEPT
                !.spreadLines = Append(@,
                    [book |-> bk.key, isSharp |-> isSharp,
                     homePoint |-> Field(oc[home], "point"),
                     homePrice |-> Field(oc[home], "price"),
                     awayPoint |-> Field(oc[away], "point"),
                     awayPrice |-> Field(oc[away], "price")]),
                !.hist = recordLineMovement(@, now, gameId,
                                            Field(oc[away], "point"), bk.key)]
        ELSE IF mkt.key = "totals" /\ over # 0 /\ under # 0
        THEN [acc EXCEPT
                !.totalLines = Append(@,
                    [book |-> bk.key, isSharp |-> isSharp,
                     point |-> Field(oc[over], "point"),
                     overPrice |-> Field(oc[over], "price"),
                     underPrice |-> Field(oc[under], "price")])]
        ELSE IF mkt.key = "h2h" /\ home # 0 /\ away # 0
        THEN [acc EXCEPT
                !.mlLines = Append(@,
                    [book |-> bk.key, isSharp |-> isSharp,
                     homePrice |-> Field(oc[home], "price"),
                     awayPrice |-> Field(oc[away], "price")])]
        ELSE acc

\* for (const mkt of bk.markets)
RECURSIVE ParseMarkets(_, _, _, _, _, _)
ParseMarkets(acc, g, bk, mkts, gameId, now) ==
    IF mkts = <<>> THEN acc
    ELSE ParseMarkets(ParseMarket(acc, g, bk, Head(mkts), gameId, now),
                      g, bk, Tail(mkts), gameId, now)

\* for (const bk of (g.bookmakers || []))
RECURSIVE ParseBookmakers(_, _, _, _, _)
ParseBookmakers(acc, g, bks, gameId, now) ==
    IF bks = <<>> THEN acc
    ELSE IF "markets" \notin DOMAIN Head(bks)
    THEN [acc EXCEPT !.threw = TRUE]   \* "bk.markets is not iterable"
    ELSE ParseBookmakers(ParseMarkets(acc, g, Head(bks), Head(bks).markets, gameId, now),
                         g, Tail(bks), gameId, now)

\* gameId: the sport label and the two team names joined by "_"
GameId(g, sportLabel) == <<sportLabel, g.home_team, g.away_team>>

\* parseGame(g, sportLabel, emoji) run at Date.now() = now with the map hist:
\* the NormalizedGame it returns and the map it leaves, or threw = TRUE when
\* it throws a TypeError, with the map as the throw left it
parseGame(g, sportLabel, hist, now) ==
    LET gameId == GameId(g, sportLabel)
        acc == ParseBookmakers(
                   [spreadLines |-> <<>>, totalLines |-> <<>>, mlLines |-> <<>>,
                    hist |-> hist, threw |-> FALSE],
                   g, IF "bookmakers" \in DOMAIN g THEN g.bookmakers ELSE <<>>,
                   gameId, now)
    IN  [game |-> [sport |-> sportLabel, gameId |-> gameId,
                   game |-> <<g.away_team, "@", g.home_team>>,
                   homeTeam |-> g.home_team, awayTeam |-> g.away_team,
                   spreadLines |-> acc.spreadLines,
                   totalLines |-> acc.totalLines,
                   mlLines |-> acc.mlLines],
         hist |-> acc.hist, threw |-> acc.threw]

-----------------------------------------------------------------------------
(* Math utils, src/index.js 629-641 *)

impliedProb(odds) ==
    IF Gt(odds, Z(0)) THEN Div(Z(100), Add(odds, Z(100)))
    ELSE Div(MathAbs(odds), Add(MathAbs(odds), Z(100)))

devig(price1, price2) ==
    LET ip1 == impliedProb(price1)
        ip2 == impliedProb(price2)
        total == Add(ip1, ip2)
    IN  [side1 |-> Div(ip1, total), side2 |-> Div(ip2, total)]

avg(arr) == Div(Sum(arr), Z(Len(arr)))

\* fmtOdds(n): the sign prefix and the number printed after it
fmtOdds(n) == <<IF Gt(n, Z(0)) THEN "+" ELSE "", n>>

-----------------------------------------------------------------------------
(* Array.prototype.sort with a comparator (a, b) => key(b) - key(a): a    *)
(* stable sort into non-increasing key order.  Entries are [k, v] pairs.   *)

\* the place of entry i when equal keys come out in reverse order
SortedPlaceLastFirst(pairs, i) ==
    Cardinality({j \in 1..Len(pairs) : \/ Lt(pairs[i].k, pairs[j].k)
                                      \/ (j > i /\ ~Lt(pairs[j].k, pairs[i].k))}) + 1

\* the place of entry i in the sorted array: after every entry with a greater
\* key and after the earlier entries with an equal key
SortedPlace(pairs, i) ==
    Cardinality({j \in 1..Len(pairs) : \/ Lt(pairs[i].k, pairs[j].k)
                                      \/ (j < i /\ ~Lt(pairs[j].k, pairs[i].k))}) + 1

SortDesc(pairs) ==
    [p \in 1..Len(pairs) |-> pairs[CHOOSE i \in 1..Len(pairs) : SortedPlace(pairs, i) = p]]

\* arr.slice(0, n)
Slice(arr, n) == SubSeq(arr, 1, IF Len(arr) < n THEN Len(arr) ELSE n)

\* arr.flat() of an array of arrays
RECURSIVE Flat(_)
Flat(arrs) == IF arrs = <<>> THEN <<>> ELSE Head(arrs) \o Flat(Tail(arrs))

-----------------------------------------------------------------------------
(* Arbitrage detector, src/index.js 767-831 *)

\* a stricter qualifying total
ArbThresholdTight == Num(90, 100)

\* the qualifying total implied probability: "totalProb < 0.98"
ArbThreshold == Num(98, 100)

\* the pairing with the books' check left out
AnyBooks(away, home) == TRUE

\* "if (away.book === home.book) continue": the pair is looked at
DifferentBooks(away, home) == away.book # home.book

\* the opportunity pushed for one (away, home) pair of spread lines, if any
SpreadArb(game, away, home) ==
    LET awayImplied == impliedProb(away.awayPrice)
        homeImplied == impliedProb(home.homePrice)
        totalProb == Add(awayImplied, homeImplied)
        profit == Mul(Sub(Div(Z(1), totalProb), Z(1)), Z(100))
    IN  IF DifferentBooks(away, home) /\ Lt(totalProb, ArbThreshold)
        THEN <<[type |-> "spread", game |-> game.game, sport |-> game.sport,
                awayBook |-> away.book, awayLine |-> away.awayPoint,
                awayOdds |-> fmtOdds(away.awayPrice),
                homeBook |-> home.book, homeLine |-> home.homePoint,
                homeOdds |-> fmtOdds(home.homePrice),
                profit |-> ToFixed(profit, 2),
                stake |-> [away |-> ToFixed(Div(Mul(Z(100), awayImplied), totalProb), 2),
                           home |-> ToFixed(Div(Mul(Z(100), homeImplied), totalProb), 2)]]>>
        ELSE <<>>

\* the opportunity pushed for one (away, home) pair of moneyline lines, if any
MoneylineArb(game, away, home) ==
    LET awayImplied == impliedProb(away.awayPrice)
        homeImplied == impliedProb(home.homePrice)
        totalProb == Add(awayImplied, homeImplied)
        profit == Mul(Sub(Div(Z(1), totalProb), Z(1)), Z(100))
    IN  IF DifferentBooks(away, home) /\ Lt(totalProb, ArbThreshold)
        THEN <<[type |-> "moneyline", game |-> game.game, sport |-> game.sport,
                awayBook |-> away.book, awayOdds |-> fmtOdds(away.awayPrice),
                homeBook |-> home.book, homeOdds |-> fmtOdds(home.homePrice),
                profit |-> ToFixed(profit, 2)]>>
        ELSE <<>>

\* for (const away of lines) for (const home of lines): pairs in loop order
PairsInOrder(n) == [k \in 1..(n * n) |-> <<((k - 1) \div n) + 1, ((k - 1) % n) + 1>>]

\* the opportunities one game contributes: spread pairs, then moneyline pairs
GameArbs(game) ==
    LET sl == game.spreadLines
        ml == game.mlLines
        sp == IF Len(sl) >= 2
              THEN Flat([k \in 1..(Len(sl) * Len(sl)) |->
                         SpreadArb(game, sl[PairsInOrder(Len(sl))[k][1]],
                                         sl[PairsInOrder(Len(sl))[k][2]])])
              ELSE <<>>
        mp == IF Len(ml) >= 2
              THEN Flat([k \in 1..(Len(ml) * Len(ml)) |->
                         MoneylineArb(game, ml[PairsInOrder(Len(ml))[k][1]],
                                            ml[PairsInOrder(Len(ml))[k][2]])])
              ELSE <<>>
    IN  sp \o mp

\* the opportunities left in the order the loops pushed them
Unsorted(opportunities) == opportunities

\* opportunities.sort((a, b) => parseFloat(b.profit) - parseFloat(a.profit))
SortByProfit(opportunities) ==
    Map(SortDesc(Map(opportunities, LAMBDA o : [k |-> o.profit, v |-> o])),
        LAMBDA p : p.v)

detectArbitrage(gs) == SortByProfit(Flat(Map(gs, GameArbs)))

-----------------------------------------------------------------------------
(* Agent 1: value, src/index.js 834-869 *)

\* `${n > 0 ? "+" : ""}${n}`
Signed(n) == <<IF Gt(n, Z(0)) THEN "+" ELSE "", n>>

\* the spread picks of agentValue
ValueSpreadPicks(game) ==
    LET sl == game.spreadLines
        bestHomePrice == MathMax(Map(sl, LAMBDA l : l.homePrice))
        bestAwayPrice == MathMax(Map(sl, LAMBDA l : l.awayPrice))
        avgHome == avg(Map(sl, LAMBDA l : l.homePrice))
        avgAway == avg(Map(sl, LAMBDA l : l.awayPrice))
        true == devig(avgHome, avgAway)
        edgeHome == Mul(Sub(true.side1, impliedProb(bestHomePrice)), Z(100))
        edgeAway == Mul(Sub(true.side2, impliedProb(bestAwayPrice)), Z(100))
        homePoint == sl[1].homePoint
        awayPoint == sl[1].awayPoint
    IN  IF Len(sl) >= 2
        THEN (IF Gt(edgeHome, Num(25, 10))
              THEN <<[side |-> "home", team |-> game.homeTeam,
                      bet |-> <<game.homeTeam>> \o Signed(homePoint),
                      odds |-> fmtOdds(bestHomePrice), edge |-> edgeHome,
                      market |-> "spread"]>>
              ELSE <<>>)
             \o
             (IF Gt(edgeAway, Num(25, 10))
              THEN <<[side |-> "away", team |-> game.awayTeam,
                      bet |-> <<game.awayTeam>> \o Signed(awayPoint),
                      odds |-> fmtOdds(bestAwayPrice), edge |-> edgeAway,
                      market |-> "spread"]>>
              ELSE <<>>)
        ELSE <<>>

\* the moneyline pick without the condition on the best away price
ValueMoneylinePicksAnyPrice(game) ==
    LET ml == game.mlLines
        bestAwayML == MathMax(Map(ml, LAMBDA l : l.awayPrice))
        avgHomeML == avg(Map(ml, LAMBDA l : l.homePrice))
        avgAwayML == avg(Map(ml, LAMBDA l : l.awayPrice))
        trueAway == devig(avgHomeML, avgAwayML).side2
        edgeAwayML == Mul(Sub(trueAway, impliedProb(bestAwayML)), Z(100))
    IN  IF Len(ml) >= 2 /\ Gt(edgeAwayML, Num(35, 10))
        THEN <<[side |-> "away", team |-> game.awayTeam,
                bet |-> <<game.awayTeam, "ML">>,
                odds |-> fmtOdds(bestAwayML), edge |-> edgeAwayML,
                market |-> "moneyline"]>>
        ELSE <<>>

\* the moneyline pick of agentValue
ValueMoneylinePicks(game) ==
    LET ml == game.mlLines
        bestAwayML == MathMax(Map(ml, LAMBDA l : l.awayPrice))
        avgHomeML == avg(Map(ml, LAMBDA l : l.homePrice))
        avgAwayML == avg(Map(ml, LAMBDA l : l.awayPrice))
        trueAway == devig(avgHomeML, avgAwayML).side2
        edgeAwayML == Mul(Sub(trueAway, impliedProb(bestAwayML)), Z(100))
    IN  IF Len(ml) >= 2 /\ Gt(edgeAwayML, Num(35, 10)) /\ Gt(bestAwayML, Z(110))
        THEN <<[side |-> "away", team |-> game.awayTeam,
                bet |-> <<game.awayTeam, "ML">>,
                odds |-> fmtOdds(bestAwayML), edge |-> edgeAwayML,
                market |-> "moneyline"]>>
        ELSE <<>>

\* the value picks without the home side of the spread
agentValueAwayOnly(game) ==
    Filter(ValueSpreadPicks(game), LAMBDA p : p.side = "away") \o ValueMoneylinePicks(game)

agentValue(game) == ValueSpreadPicks(game) \o ValueMoneylinePicks(game)

-----------------------------------------------------------------------------
(* Agent 2: line movement, src/index.js 872-923 *)

\* spreadLines.reduce((best, l) => (l.awayPoint > best.awayPoint ? l : best))
RECURSIVE BestForAway(_, _)
BestForAway(best, rest) ==
    IF rest = <<>> THEN best
    ELSE BestForAway(IF Gt(Head(rest).awayPoint, best.awayPoint) THEN Head(rest) ELSE best,
                     Tail(rest))

\* the signal on the range of the away points across books
RangeSignal(game) ==
    LET awayPoints == Map(game.spreadLines, LAMBDA l : l.awayPoint)
        lineSpread == Sub(MathMax(awayPoints), MathMin(awayPoints))
        bestForAway == BestForAway(game.spreadLines[1], Tail(game.spreadLines))
    IN  IF Ge(lineSpread, Num(1, 2))
        THEN <<[side |-> game.awayTeam, market |-> "spread",
                bestLine |-> Signed(bestForAway.awayPoint),
                spread |-> lineSpread,
                strength |-> IF Ge(lineSpread, Num(3, 2)) THEN "strong"
                             ELSE IF Ge(lineSpread, Z(1)) THEN "moderate" ELSE "weak"]>>
        ELSE <<>>

\* the signal on sharp books against the others
SharpVsSquareSignal(game) ==
    LET sharpLines == Filter(game.spreadLines, LAMBDA l : l.isSharp)
        squareLines == Filter(game.spreadLines, LAMBDA l : ~l.isSharp)
        sharpAvg == avg(Map(sharpLines, LAMBDA l : l.awayPoint))
        squareAvg == avg(Map(squareLines, LAMBDA l : l.awayPoint))
        diff == Sub(sharpAvg, squareAvg)
    IN  IF Len(sharpLines) # 0 /\ Len(squareLines) # 0 /\ Ge(MathAbs(diff), Num(1, 2))
        THEN <<[side |-> IF Gt(diff, Z(0)) THEN game.awayTeam ELSE game.homeTeam,
                market |-> "spread", type |-> "sharp_vs_square",
                diff |-> ToFixed(diff, 1),
                strength |-> IF Ge(MathAbs(diff), Z(1)) THEN "strong" ELSE "moderate"]>>
        ELSE <<>>

\* the signal read from the recorded history of the game
HistoricalSignal(history) ==
    LET oldLine == history.lines[1]
        newLine == history.lines[Len(history.lines)]
        move == Sub(newLine, oldLine)
    IN  IF Len(history.lines) >= 2 /\ Ge(MathAbs(move), Z(1))
        THEN <<[type |-> "historical", move |-> ToFixed(move, 1),
                direction |-> IF Gt(move, Z(0)) THEN "toward_away" ELSE "toward_home",
                strength |-> IF Ge(MathAbs(move), Z(2)) THEN "strong" ELSE "moderate"]>>
        ELSE <<>>

\* the line-movement signals without the comparison of sharp and square books
agentLineMovementRangeOnly(game, hist) ==
    IF Len(game.spreadLines) < 2 THEN <<>>
    ELSE RangeSignal(game)
         \o (IF game.gameId \in DOMAIN hist
             THEN HistoricalSignal(hist[game.gameId]) ELSE <<>>)

\* agentLineMovement(game), reading the map lineHistory = hist
agentLineMovement(game, hist) ==
    IF Len(game.spreadLines) < 2 THEN <<>>
    ELSE RangeSignal(game) \o SharpVsSquareSignal(game)
         \o (IF game.gameId \in DOMAIN hist
             THEN HistoricalSignal(hist[game.gameId]) ELSE <<>>)

-----------------------------------------------------------------------------
(* Agents 3-6, src/index.js 926-1045 *)

agentPublicMoney(game) ==
    LET squareSpread == Filter(game.spreadLines, LAMBDA l : ~l.isSharp)
        avgHomeJuice == avg(Map(squareSpread, LAMBDA l : impliedProb(l.homePrice)))
        avgAwayJuice == avg(Map(squareSpread, LAMBDA l : impliedProb(l.awayPrice)))
        publicIsHome == Gt(avgHomeJuice, avgAwayJuice)
        heavierSidePct == MathRound(Mul(Max2(avgHomeJuice, avgAwayJuice), Z(100)))
        publicPct == Min2(Z(80), Max2(Z(55), Add(heavierSidePct, Z(8))))
    IN  IF Len(squareSpread) # 0
        THEN <<[market |-> "spread",
                publicSide |-> IF publicIsHome THEN game.homeTeam ELSE game.awayTeam,
                publicPct |-> publicPct,
                contrarianSide |-> IF publicIsHome THEN game.awayTeam ELSE game.homeTeam,
                contrarianPct |-> Sub(Z(100), publicPct)]>>
        ELSE <<>>

\* the reverse-line-movement signal of agentSharpMoney
RLMSignal(game) ==
    LET sharpLines == Filter(game.spreadLines, LAMBDA l : l.isSharp)
        squareLines == Filter(game.spreadLines, LAMBDA l : ~l.isSharp)
        sharpAwayAvg == avg(Map(sharpLines, LAMBDA l : l.awayPoint))
        squareAwayAvg == avg(Map(squareLines, LAMBDA l : l.awayPoint))
        sharpHomeJuice == avg(Map(sharpLines, LAMBDA l : l.homePrice))
        squareHomeJuice == avg(Map(squareLines, LAMBDA l : l.homePrice))
    IN  IF Len(sharpLines) # 0 /\ Len(squareLines) # 0
           /\ Gt(sharpAwayAvg, Add(squareAwayAvg, Num(1, 2)))
           /\ Lt(squareHomeJuice, sharpHomeJuice)
        THEN <<[type |-> "RLM", sharpSide |-> game.awayTeam, market |-> "spread",
                signal |-> "strong", rlmDetected |-> TRUE,
                description |-> <<game.awayTeam, ToFixed(Sub(sharpAwayAvg, squareAwayAvg), 1)>>]>>
        ELSE <<>>

\* the juice-imbalance signal of agentSharpMoney
JuiceSignal(game) ==
    LET allHomeJuice == avg(Map(game.spreadLines, LAMBDA l : impliedProb(l.homePrice)))
        allAwayJuice == avg(Map(game.spreadLines, LAMBDA l : impliedProb(l.awayPrice)))
        juiceDiff == Sub(allHomeJuice, allAwayJuice)
    IN  IF Gt(MathAbs(juiceDiff), Num(4, 100))
        THEN <<[type |-> "juice_imbalance",
                publicSide |-> IF Gt(juiceDiff, Z(0)) THEN game.homeTeam ELSE game.awayTeam,
                sharpSide |-> IF Gt(juiceDiff, Z(0)) THEN game.awayTeam ELSE game.homeTeam,
                market |-> "spread", rlmDetected |-> FALSE,
                signal |-> IF Gt(MathAbs(juiceDiff), Num(7, 100)) THEN "strong" ELSE "moderate",
                juiceDiff |-> ToFixed(Mul(MathAbs(juiceDiff), Z(100)), 1)]>>
        ELSE <<>>

\* the sharp-money signals with the juice check skipped once RLM is found
agentSharpMoneyEither(game) ==
    IF Len(game.spreadLines) < 2 THEN <<>>
    ELSE IF RLMSignal(game) # <<>> THEN RLMSignal(game) ELSE JuiceSignal(game)

agentSharpMoney(game) ==
    IF Len(game.spreadLines) < 2 THEN <<>>
    ELSE RLMSignal(game) \o JuiceSignal(game)

\* the flags of agentInjury
InjuryFlags(game) ==
    LET sl == game.spreadLines
        awayPoint == sl[1].awayPoint
        homePrice == sl[1].homePrice
        awayPrice == sl[1].awayPrice
        points == Map(sl, LAMBDA l : l.awayPoint)
    IN  IF Len(sl) # 0
        THEN (IF Gt(awayPoint, Z(14))
              THEN <<[flag |-> <<game.awayTeam, "large underdogs - verify roster">>,
                      severity |-> "check"]>>
              ELSE <<>>)
             \o
             (IF Lt(homePrice, Z(-135)) \/ Lt(awayPrice, Z(-135))
              THEN <<[flag |-> <<"Heavy juice - may reflect injury news">>,
                      severity |-> "moderate"]>>
              ELSE <<>>)
             \o
             (IF Len(sl) >= 3 /\ Ge(Sub(MathMax(points), MathMin(points)), Z(2))
              THEN <<[flag |-> <<"High spread variance - market reacting to news">>,
                      severity |-> "check"]>>
              ELSE <<>>)
        ELSE <<>>

\* the injury report that never asks to check the reports
agentInjuryNoImpact(game) ==
    LET flags == InjuryFlags(game)
    IN  [game |-> game.game,
         flags |-> IF Len(flags) # 0 THEN flags
                   ELSE <<[flag |-> <<"No unusual line shapes">>, severity |-> "none"]>>,
         lineImpact |-> "none"]

agentInjury(game) ==
    LET flags == InjuryFlags(game)
    IN  [game |-> game.game,
         flags |-> IF Len(flags) # 0 THEN flags
                   ELSE <<[flag |-> <<"No unusual line shapes">>, severity |-> "none"]>>,
         lineImpact |-> IF Len(flags) # 0 THEN "check_reports" ELSE "none"]

\* the spread edges of agentSituational
SituationalSpread(game) ==
    LET awayPoint == game.spreadLines[1].awayPoint
        homePoint == game.spreadLines[1].homePoint
    IN  IF Len(game.spreadLines) # 0
        THEN (IF Gt(awayPoint, Z(0))
              THEN <<[edge |-> "Road underdog spot", side |-> game.awayTeam,
                      betType |-> "spread",
                      strength |-> IF Gt(awayPoint, Z(6)) THEN "strong"
                                   ELSE IF Gt(awayPoint, Z(3)) THEN "moderate" ELSE "weak"]>>
              ELSE <<>>)
             \o
             (IF Lt(homePoint, Z(-9))
              THEN <<[edge |-> "Large home chalk fade", side |-> game.awayTeam,
                      betType |-> "spread",
                      strength |-> IF Lt(homePoint, Z(-13)) THEN "moderate" ELSE "weak"]>>
              ELSE <<>>)
        ELSE <<>>

\* the moneyline edge of agentSituational
SituationalMoneyline(game) ==
    LET bestAwayML == MathMax(Map(game.mlLines, LAMBDA l : l.awayPrice))
    IN  IF Len(game.mlLines) # 0 /\ Gt(bestAwayML, Z(160))
        THEN <<[edge |-> "Big underdog ML value", side |-> game.awayTeam,
                betType |-> "moneyline", odds |-> fmtOdds(bestAwayML),
                strength |-> IF Gt(bestAwayML, Z(250)) THEN "moderate" ELSE "weak"]>>
        ELSE <<>>

agentSituational(game) == SituationalSpread(game) \o SituationalMoneyline(game)

-----------------------------------------------------------------------------
(* Agent 7: consensus, src/index.js 1048-1140 *)

\* every strength counted as strong
TierTop(strength, a, b, c) == a

\* strength === "strong" ? a : strength === "moderate" ? b : c
Tier(strength, a, b, c) ==
    IF strength = "strong" THEN a ELSE IF strength = "moderate" THEN b ELSE c

\* candidates.slice(0, 8)
TopN == 8

\* the signals of the six agents for one game
Signals(game, hist) ==
    [value |-> agentValue(game),
     line |-> agentLineMovement(game, hist),
     public |-> agentPublicMoney(game),
     sharp |-> agentSharpMoney(game),
     injury |-> agentInjury(game),
     situational |-> agentSituational(game)]

\* the composite score of the value pick vp, lines 1060-1081
Score(vp, sig) ==
    LET lineMatch == FindIdx(sig.line, LAMBDA l : "side" \in DOMAIN l /\ l.side = vp.team)
        pubSignal == FindIdx(sig.public, LAMBDA q : q.market = vp.market)
        sharpMatch == FindIdx(sig.sharp,
                              LAMBDA s : \/ s.sharpSide = vp.team
                                         \/ /\ "publicSide" \in DOMAIN s
                                            /\ s.publicSide # vp.team)
        sitMatch == FindIdx(sig.situational, LAMBDA s : s.side = vp.team)
        value == Min2(Mul(vp.edge, Num(45, 10)), Z(35))
        line == IF lineMatch # 0 THEN Tier(sig.line[lineMatch].strength, 20, 12, 6) ELSE 0
        public == IF pubSignal # 0 /\ sig.public[pubSignal].contrarianSide = vp.team
                  THEN (IF Gt(sig.public[pubSignal].publicPct, Z(68)) THEN 20
                        ELSE IF Gt(sig.public[pubSignal].publicPct, Z(60)) THEN 13 ELSE 7)
                  ELSE 0
        sharp == IF sharpMatch # 0
                 THEN Tier(sig.sharp[sharpMatch].signal, 22, 13, 7)
                      + (IF sig.sharp[sharpMatch].rlmDetected THEN 5 ELSE 0)
                 ELSE 0
        injury == IF sig.injury.lineImpact = "check_reports" THEN 10 ELSE 0
        sit == IF sitMatch # 0 THEN Tier(sig.situational[sitMatch].strength, 15, 9, 5) ELSE 0
    IN  Add(value, Z(line + public + sharp - injury + sit))

\* the confidence without its upper bound
ConfidenceUncapped(score) ==
    Max2(Z(55), MathRound(Add(Mul(score, Num(65, 100)), Z(20))))

\* line 1083
Confidence(score) ==
    Min2(Z(90), Max2(Z(55), MathRound(Add(Mul(score, Num(65, 100)), Z(20)))))

\* line 1084
DisplayEdge(vp) == Max2(Z(0), Min2(Z(14), ToFixed(Mul(vp.edge, Num(88, 100)), 1)))

\* the gate without its edge condition
AdmittedByConfidence(confidence, edge) == ~Lt(confidence, Z(65))

\* line 1086: the candidate is kept
Admitted(confidence, edge) == ~(Lt(confidence, Z(65)) \/ Lt(edge, Num(35, 10)))

\* spreadLines.reduce((best, l) => l.awayPrice > best.awayPrice ? l : best, spreadLines[0])
RECURSIVE BestAwayPriceLine(_, _)
BestAwayPriceLine(best, rest) ==
    IF rest = <<>> THEN best
    ELSE BestAwayPriceLine(IF Gt(Head(rest).awayPrice, best.awayPrice) THEN Head(rest) ELSE best,
                           Tail(rest))

\* the candidate pushed for the value pick vp, lines 1088-1122
Candidate(game, vp, sig, hist) ==
    LET score == Score(vp, sig)
        confidence == Confidence(score)
        edge == DisplayEdge(vp)
        pubData == FindIdx(sig.public, LAMBDA q : q.market = vp.market)
        sharpData == FindIdx(sig.sharp, LAMBDA s : s.sharpSide = vp.team)
        lineData == FindIdx(sig.line, LAMBDA l : "side" \in DOMAIN l /\ l.side = vp.team)
        sitData == FindIdx(sig.situational, LAMBDA s : s.side = vp.team)
        valueGrade == IF Ge(edge, Z(9)) THEN "A" ELSE IF Ge(edge, Z(7)) THEN "A-"
                      ELSE IF Ge(edge, Z(5)) THEN "B+" ELSE "B"
        lineSparkline == IF game.gameId \in DOMAIN hist
                         THEN hist[game.gameId].lines ELSE <<>>
        awayPt == IF Len(game.spreadLines) # 0
                  THEN Signed(game.spreadLines[1].awayPoint) ELSE <<"N/A">>
        bestBook == IF Len(game.spreadLines) # 0
                    THEN BestAwayPriceLine(game.spreadLines[1], game.spreadLines).book
                    ELSE "Multiple"
    IN  [game |-> game, bet |-> vp.bet,
         betType |-> IF vp.market = "moneyline" THEN "moneyline"
                     ELSE IF vp.market = "total" THEN "total" ELSE "spread",
         odds |-> vp.odds, confidence |-> confidence, edge |-> edge,
         team |-> vp.team, score |-> score,
         openingLine |-> IF Len(lineSparkline) > 0 THEN [number |-> lineSparkline[1]]
                         ELSE [text |-> awayPt],
         currentLine |-> [text |-> awayPt],
         lineSparkline |-> lineSparkline,
         lineMove |-> IF sharpData # 0 /\ sig.sharp[sharpData].rlmDetected
                      THEN <<"RLM detected">>
                      ELSE IF lineData # 0
                      THEN <<IF "spread" \in DOMAIN sig.line[lineData]
                             THEN ToFixed(sig.line[lineData].spread, 1) ELSE Num(5, 10),
                             "pt move">>
                      ELSE <<"Stable">>,
         model_breakdown |->
            [value |-> <<valueGrade, ToFixed(edge, 1)>>,
             line_movement |-> IF lineData # 0
                               THEN <<sig.line[lineData].strength,
                                      Field(sig.line[lineData], "bestLine"),
                                      IF "type" \in DOMAIN sig.line[lineData]
                                      THEN sig.line[lineData].diff ELSE <<>>>>
                               ELSE <<"Stable">>,
             public_money |-> IF pubData # 0
                              THEN <<sig.public[pubData].publicPct, sig.public[pubData].publicSide>>
                              ELSE <<"Even split">>,
             sharp_action |-> IF sharpData # 0
                              THEN (IF sig.sharp[sharpData].rlmDetected THEN <<"RLM confirmed">>
                                    ELSE <<sig.sharp[sharpData].juiceDiff, "imbalance">>)
                              ELSE <<"No signal">>,
             injury_report |-> sig.injury.flags[1].flag,
             situational |-> IF sitData # 0 THEN sig.situational[sitData].edge ELSE "Standard",
             best_book |-> bestBook]]

\* the candidates one game pushes, in the order of its value picks
GameCandidates(game, hist) ==
    LET sig == Signals(game, hist)
        all == Map(sig.value, LAMBDA vp : Candidate(game, vp, sig, hist))
    IN  Filter(all, LAMBDA c : Admitted(c.confidence, c.edge))

\* the array candidates when the loop over the games ends (line 1124)
Candidates(gs, hist) == Flat(Map(gs, LAMBDA game : GameCandidates(game, hist)))

\* the ranking by displayed edge instead of raw score
SortByEdge(candidates) ==
    Map(SortDesc(Map(candidates, LAMBDA c : [k |-> c.edge, v |-> c])),
        LAMBDA p : p.v)

\* candidates.sort((a, b) => b.score - a.score)
SortByScore(candidates) ==
    Map(SortDesc(Map(candidates, LAMBDA c : [k |-> c.score, v |-> c])),
        LAMBDA p : p.v)

\* the pick emitted for the candidate c at index i (0-based) of the sorted array
Pick(c, i) ==
    [id |-> <<c.game.sport, i>>, sport |-> c.game.sport,
     game |-> c.game.game, homeTeam |-> c.game.homeTeam, awayTeam |-> c.game.awayTeam,
     bet |-> c.bet, betType |-> c.betType, odds |-> c.odds,
     confidence |-> c.confidence, edge |-> c.edge,
     openingLine |-> c.openingLine, currentLine |-> c.currentLine,
     lineSparkline |-> c.lineSparkline, lineMove |-> c.lineMove,
     model_breakdown |-> c.model_breakdown]

\* candidates.slice(0, 8).map(...)
EmitPicks(sorted) ==
    LET top == Slice(sorted, TopN)
    IN  [i \in 1..Len(top) |-> Pick(top[i], i - 1)]

\* agentConsensus(parsedGames).consensus_picks
agentConsensus(gs, hist) == EmitPicks(SortByScore(Candidates(gs, hist)))

-----------------------------------------------------------------------------
(* The pipeline on one list of raw games: games.map(g => parseGame(g, ...)) *)
(* then detectArbitrage and agentConsensus, as lines 1203 and 1213-1214.   *)

\* rawGames.map((g) => parseGame(g, label, emoji)) at Date.now() = now; the
\* map throws when a parseGame does
RECURSIVE ParseAll(_, _, _, _)
ParseAll(rawGames, label, hist, now) ==
    IF rawGames = <<>> THEN [games |-> <<>>, hist |-> hist, threw |-> FALSE]
    ELSE LET first == parseGame(Head(rawGames), label, hist, now)
             rest == ParseAll(Tail(rawGames), label, first.hist, now)
         IN  IF first.threw THEN [games |-> <<>>, hist |-> first.hist, threw |-> TRUE]
             ELSE IF rest.threw THEN rest
             ELSE [games |-> <<first.game>> \o rest.games, hist |-> rest.hist,
                   threw |-> FALSE]

NoOutput == [status |-> 0, candidates |-> <<>>, picks |-> <<>>, arbs |-> <<>>]

-----------------------------------------------------------------------------
(* Inputs of the pipeline runs: feed quotes drawn from small tables *)

\* one bookmaker's spread quote: the away point and the two prices; kind tells
\* what the feed left out ("none": no spreads market, "no_away": the away
\* outcome is missing, "no_price": the home outcome carries no price)
SpreadQuotes ==
    << [kind |-> "full", pt |-> Num(5, 1), hp |-> -160, ap |-> -110],
       [kind |-> "full", pt |-> Num(7, 2), hp |-> -160, ap |-> 120],
       [kind |-> "full", pt |-> Num(3, 1), hp |-> -110, ap |-> -110],
       [kind |-> "full", pt |-> Num(7, 2), hp |-> 120, ap |-> -160],
       [kind |-> "full", pt |-> Num(5, 1), hp |-> -105, ap |-> 125],
       [kind |-> "full", pt |-> Num(-3, 1), hp |-> 150, ap |-> -110],
       [kind |-> "none", pt |-> Num(0, 1), hp |-> 0, ap |-> 0],
       [kind |-> "no_away", pt |-> Num(3, 1), hp |-> -110, ap |-> 0],
       [kind |-> "no_price", pt |-> Num(3, 1), hp |-> 0, ap |-> -110] >>

\* one bookmaker's moneyline quote
MoneylineQuotes ==
    << [kind |-> "full", hp |-> -150, ap |-> 130],
       [kind |-> "full", hp |-> 130, ap |-> -110],
       [kind |-> "none", hp |-> 0, ap |-> 0],
       [kind |-> "no_home", hp |-> 0, ap |-> 200] >>

\* what else the game's feed holds: a third book's spread, or a totals market
Extras == <<"none", "third_flat", "third_wide", "totals", "totals_no_under", "totals_no_point">>

SpreadsMarket(q, home, away) ==
    [key |-> "spreads",
     outcomes |->
        (IF q.kind = "no_price" THEN <<[name |-> home, point |-> Neg(q.pt)]>>
         ELSE <<[name |-> home, point |-> Neg(q.pt), price |-> Z(q.hp)]>>)
        \o
        (IF q.kind = "no_away" THEN <<>>
         ELSE <<[name |-> away, point |-> q.pt, price |-> Z(q.ap)]>>)]

H2hMarket(q, home, away) ==
    [key |-> "h2h",
     outcomes |->
        (IF q.kind = "no_home" THEN <<>> ELSE <<[name |-> home, price |-> Z(q.hp)]>>)
        \o <<[name |-> away, price |-> Z(q.ap)]>>]

TotalsMarket(e) ==
    [key |-> "totals",
     outcomes |->
        (IF e = "totals_no_point" THEN <<[name |-> "Over", price |-> Z(-110)]>>
         ELSE <<[name |-> "Over", point |-> Num(2175, 10), price |-> Z(-110)]>>)
        \o
        (IF e = "totals_no_under" THEN <<>>
         ELSE <<[name |-> "Under", point |-> Num(2175, 10), price |-> Z(-105)]>>)]

Bookmaker(key, sq, mq, e, home, away) ==
    [key |-> key,
     markets |->
        (IF sq.kind = "none" THEN <<>> ELSE <<SpreadsMarket(sq, home, away)>>)
        \o (IF e = "none" THEN <<>> ELSE <<TotalsMarket(e)>>)
        \o (IF mq.kind = "none" THEN <<>> ELSE <<H2hMarket(mq, home, away)>>)]

ThirdBook(e, home, away) ==
    IF e = "third_flat"
    THEN <<Bookmaker("draftkings", [kind |-> "full", pt |-> Num(3, 1), hp |-> -110, ap |-> -110],
                     MoneylineQuotes[3], "none", home, away)>>
    ELSE IF e = "third_wide"
    THEN <<Bookmaker("draftkings", [kind |-> "full", pt |-> Num(11, 2), hp |-> 120, ap |-> 120],
                     MoneylineQuotes[3], "none", home, away)>>
    ELSE <<>>

\* a raw game of the feed with a sharp book, a square book and the extras
RawGame(home, away, s1, m1, s2, m2, e) ==
    [home_team |-> home, away_team |-> away,
     bookmakers |->
        <<Bookmaker("pinnacle", SpreadQuotes[s1], MoneylineQuotes[m1],
                    IF e \in {"totals", "totals_no_under", "totals_no_point"} THEN e ELSE "none",
                    home, away),
          Bookmaker("fanduel", SpreadQuotes[s2], MoneylineQuotes[m2], "none", home, away)>>
        \o ThirdBook(e, home, away)]

\* a feed record without a bookmakers list
BareGame == [home_team |-> "H", away_team |-> "A"]

\* the quotes of four games kept for the lists: two picks apart in score, two
\* picks with a third book, two picks tied in score, and a game whose value
\* picks are all discarded, one of them by the edge alone
Pool ==
    << [s1 |-> 1, m1 |-> 1, s2 |-> 2, m2 |-> 2, e |-> "none"],
       [s1 |-> 5, m1 |-> 1, s2 |-> 2, m2 |-> 2, e |-> "third_flat"],
       [s1 |-> 5, m1 |-> 1, s2 |-> 3, m2 |-> 2, e |-> "none"],
       [s1 |-> 6, m1 |-> 1, s2 |-> 4, m2 |-> 1, e |-> "none"] >>

\* the teams of the game at each place of a list
Homes == <<"H1", "H2", "H3", "H4", "H5", "H6", "H7", "H8">>
Aways == <<"A1", "A2", "A3", "A4", "A5", "A6", "A7", "A8">>

\* the game of the pool's quotes k played by the teams of place i
PoolGame(k, i) ==
    RawGame(Homes[i], Aways[i], Pool[k].s1, Pool[k].m1, Pool[k].s2, Pool[k].m2, Pool[k].e)

\* a game quoted by pinnacle and fanduel on the spread only
SpreadGame(sq1, sq2) ==
    [home_team |-> "H", away_team |-> "A",
     bookmakers |-> <<Bookmaker("pinnacle", sq1, MoneylineQuotes[3], "none", "H", "A"),
                      Bookmaker("fanduel", sq2, MoneylineQuotes[3], "none", "H", "A")>>]

\* a game quoted by pinnacle and fanduel on the moneyline only
MoneylineGame(mq1, mq2) ==
    [home_team |-> "H", away_team |-> "A",
     bookmakers |-> <<Bookmaker("pinnacle", SpreadQuotes[7], mq1, "none", "H", "A"),
                      Bookmaker("fanduel", SpreadQuotes[7], mq2, "none", "H", "A")>>]

\* games met one by one: an away pick of raw edge above 10 with a strong
\* line-movement, RLM and situational match and no injury flag, first with
\* the public on the away side, then on the home side; a game of two
\* books without margin whose mean prices are 0 on both sides; a moneyline game whose away edge is large
\* at a best away price of +105; a moneyline game whose two sides have
\* the same large edge at a best price of +200; a game whose two books are
\* one point apart; a game whose first line has the away team at +14.5; and
\* a game whose first line has the home team at -9 and fair prices while the
\* second has it at -10 with an away price of -140
Fixtures ==
    << SpreadGame([kind |-> "full", pt |-> Num(17, 2), hp |-> -110, ap |-> 140],
                  [kind |-> "full", pt |-> Num(7, 1), hp |-> -120, ap |-> -125]),
       SpreadGame([kind |-> "full", pt |-> Num(17, 2), hp |-> -110, ap |-> 140],
                  [kind |-> "full", pt |-> Num(7, 1), hp |-> -130, ap |-> -120]),
       SpreadGame([kind |-> "full", pt |-> Num(1, 1), hp |-> 110, ap |-> -110],
                  [kind |-> "full", pt |-> Num(1, 1), hp |-> -110, ap |-> 110]),
       MoneylineGame([kind |-> "full", hp |-> 110, ap |-> 105],
                     [kind |-> "full", hp |-> -200, ap |-> 100]),
       MoneylineGame([kind |-> "full", hp |-> 200, ap |-> -250],
                     [kind |-> "full", hp |-> -250, ap |-> 200]),
       SpreadGame([kind |-> "full", pt |-> Num(4, 1), hp |-> -110, ap |-> -110],
                  [kind |-> "full", pt |-> Num(3, 1), hp |-> -110, ap |-> -110]),
       SpreadGame([kind |-> "full", pt |-> Num(29, 2), hp |-> -110, ap |-> -110],
                  [kind |-> "full", pt |-> Num(14, 1), hp |-> -110, ap |-> -110]),
       SpreadGame([kind |-> "full", pt |-> Num(9, 1), hp |-> -110, ap |-> -110],
                  [kind |-> "full", pt |-> Num(10, 1), hp |-> -110, ap |-> -140]) >>

\* the longest list of games handed to one run
MaxGames == 5

-----------------------------------------------------------------------------
(* SpecPipe: one run of the pipeline on a list of raw games, on a process  *)
(* that has scanned nothing before.                                        *)

PipeInit ==
    /\ clock = 0
    /\ users = <<>>
    /\ lineHistory = <<>>
    /\ pc = "raw"
    /\ games = <<>>
    /\ out = NoOutput
    /\ \/ \E s1, s2 \in 1..Len(SpreadQuotes), m1, m2 \in 1..Len(MoneylineQuotes),
            e \in 1..Len(Extras) :
            raw = <<RawGame("H", "A", s1, m1, s2, m2, Extras[e])>>
       \/ raw = <<BareGame>>
       \/ \E k \in 1..Len(Fixtures) : raw = <<Fixtures[k]>>
       \/ \E n \in 2..MaxGames : \E f \in [1..n -> 1..Len(Pool)] :
            raw = [i \in 1..n |-> PoolGame(f[i], i)]

\* games.map((g) => parseGame(g, s.label, s.emoji))
PipeParse ==
    /\ pc = "raw"
    /\ LET parsed == ParseAll(raw, "NBA", lineHistory, clock)
       IN  /\ games' = parsed.games
           /\ lineHistory' = parsed.hist
           /\ IF parsed.threw
              THEN pc' = "done" /\ out' = [out EXCEPT !.status = 500]
              ELSE pc' = "parsed" /\ UNCHANGED out
    /\ UNCHANGED <<clock, raw, users>>

\* const arbs = detectArbitrage(allGames)
PipeArbitrage ==
    /\ pc = "parsed"
    /\ out' = [out EXCEPT !.arbs = detectArbitrage(games)]
    /\ pc' = "arbs"
    /\ UNCHANGED <<clock, lineHistory, raw, games, users>>

\* const result = agentConsensus(allGames)
PipeConsensus ==
    /\ pc = "arbs"
    /\ LET sorted == SortByScore(Candidates(games, lineHistory))
       IN  out' = [out EXCEPT !.candidates = sorted, !.picks = EmitPicks(sorted),
                              !.status = 200]
    /\ pc' = "done"
    /\ UNCHANGED <<clock, lineHistory, raw, games, users>>

PipeNext == PipeParse \/ PipeArbitrage \/ PipeConsensus

SpecPipe == PipeInit /\ [][PipeNext]_vars

-----------------------------------------------------------------------------
(* Spec: the server answering GET /scan requests one after the other, the  *)
(* map lineHistory living as long as the process (src/index.js 1198-1222). *)

\* the first two of the sports the scan fetches (SPORTS[i].label)
SPORTS == <<"NBA", "NFL">>

\* the clock advances by steps of this many milliseconds
TickMs == 150001

\* the number of steps the clock takes
MaxTicks == 2

\* the game the feed quotes, and the same game after pinnacle moved its spread
GameNow == RawGame("H", "A", 1, 1, 2, 2, "none")
GameMoved == RawGame("H", "A", 3, 1, 2, 2, "none")

\* a game whose second bookmaker comes without a markets list
GameNoMarkets ==
    [home_team |-> "H", away_team |-> "A",
     bookmakers |-> <<Bookmaker("pinnacle", SpreadQuotes[1], MoneylineQuotes[1],
                                "none", "H", "A"),
                      [key |-> "fanduel"]>>]

\* a game whose first bookmaker quotes the home spread without a price
GameNoPrice == RawGame("H", "A", 9, 1, 2, 2, "none")

\* the bodies a feed answers with when it answers a list of games
Feeds == << <<>>, <<GameNow>>, <<GameMoved>>, <<GameNoMarkets>>, <<GameNoPrice>> >>

\* fetch() throws, or the status is not ok: fetchSportOdds returns []
FailKinds == {"network_error", "timeout", "http_error"}

\* a 200 answer whose body is not JSON, or is JSON but not an array
RejectKinds == {"bad_json", "not_array"}

Pending == [kind |-> "pending"]

NoPending == \A s \in 1..Len(SPORTS) : raw[s].kind # "pending"

Init ==
    /\ clock = 0
    /\ users = <<>>
    /\ lineHistory = <<>>
    /\ pc = "idle"
    /\ raw = [s \in 1..Len(SPORTS) |-> [kind |-> "none"]]
    /\ games = [s \in 1..Len(SPORTS) |-> <<>>]
    /\ out = NoOutput

\* a GET /scan arrives: SPORTS.map((s) => fetchSportOdds(s.key)...) starts
Request ==
    /\ pc \in {"idle", "done"}
    /\ NoPending
    /\ pc' = "fetching"
    /\ raw' = [s \in 1..Len(SPORTS) |-> Pending]
    /\ games' = [s \in 1..Len(SPORTS) |-> <<>>]
    /\ out' = NoOutput
    /\ UNCHANGED <<clock, lineHistory, users>>

\* the feed of sport s answers a list of games:
\* games.slice(0, 8).map((g) => parseGame(g, s.label, s.emoji)); a parseGame
\* that throws rejects the sport's promise, and the handler's catch answers
\* 500 unless it has answered
FetchOk(s, body) ==
    /\ raw[s] = Pending
    /\ LET parsed == ParseAll(Slice(body, 8), SPORTS[s], lineHistory, clock)
       IN  /\ games' = [games EXCEPT ![s] = parsed.games]
           /\ lineHistory' = parsed.hist
           /\ IF parsed.threw /\ pc = "fetching"
              THEN pc' = "done" /\ out' = [out EXCEPT !.status = 500]
              ELSE UNCHANGED <<pc, out>>
    /\ raw' = [raw EXCEPT ![s] = [kind |-> "ok", body |-> body]]
    /\ UNCHANGED <<clock, users>>

\* fetch() throws or res.ok is false: fetchSportOdds returns [], which maps to []
FetchFails(s, kind) ==
    /\ raw[s] = Pending
    /\ raw' = [raw EXCEPT ![s] = [kind |-> kind]]
    /\ games' = [games EXCEPT ![s] = <<>>]
    /\ UNCHANGED <<clock, lineHistory, pc, out, users>>

\* "return res.json()" rejects outside the try, or games.slice is not a
\* function: the promise of sport s rejects, Promise.all rejects, and the
\* handler's catch answers 500 unless a sport rejected before
FetchRejects(s, kind) ==
    /\ raw[s] = Pending
    /\ raw' = [raw EXCEPT ![s] = [kind |-> kind]]
    /\ IF pc = "fetching"
       THEN pc' = "done" /\ out' = [out EXCEPT !.status = 500]
       ELSE UNCHANGED <<pc, out>>
    /\ UNCHANGED <<clock, lineHistory, games, users>>

\* the merged list is taken for no data whatever it holds
AlwaysNoData(allGames) == TRUE

\* "if (allGames.length === 0)": the handler answers 503
NoData(allGames) == Len(allGames) = 0

\* every sport is fulfilled: the handler merges, scores and answers
Respond ==
    /\ pc = "fetching"
    /\ NoPending
    /\ LET allGames == Flat(games)
           sorted == SortByScore(Candidates(allGames, lineHistory))
       IN  IF NoData(allGames)
           THEN out' = [out EXCEPT !.status = 503]
           ELSE out' = [status |-> 200, candidates |-> sorted,
                        picks |-> EmitPicks(sorted),
                        arbs |-> Slice(detectArbitrage(allGames), 5)]
    /\ pc' = "done"
    /\ UNCHANGED <<clock, lineHistory, raw, games, users>>

\* time passes
Tick ==
    /\ clock < MaxTicks * TickMs
    /\ clock' = clock + TickMs
    /\ UNCHANGED <<lineHistory, pc, raw, games, out, users>>

Next ==
    \/ Request
    \/ \E s \in 1..Len(SPORTS) : \E b \in 1..Len(Feeds) : FetchOk(s, Feeds[b])
    \/ \E s \in 1..Len(SPORTS) : \E k \in FailKinds : FetchFails(s, k)
    \/ \E s \in 1..Len(SPORTS) : \E k \in RejectKinds : FetchRejects(s, k)
    \/ Respond
    \/ Tick

Spec == Init /\ [][Next]_vars

-----------------------------------------------------------------------------
(* SpecCached: the v4.0 variant of GET /scan (src/index.js 516-550), whose *)
(* fetchSportOdds (144-163) looks the odds up in the Redis cache first.    *)
(* Only the calls bounded by AbortSignal.timeout(8000) are sure to settle. *)

\* what the cache or the feed holds for a sport
CachedFeeds == << <<>>, <<GameNow>> >>

\* 65 + Math.floor(Math.random() * 20): the least and the greatest draw
RandomConfidences == {65, 84}

\* the stages of fetchSportOdds that still await something
Awaiting == {"cache", "fetch", "body", "store"}

AllSettled == \A s \in 1..Len(SPORTS) : raw[s].kind \notin Awaiting

\* a GET /scan arrives: every fetchSportOdds starts with "await getCache(cacheKey)"
CachedRequest ==
    /\ pc \in {"idle", "done"}
    /\ AllSettled
    /\ pc' = "fetching"
    /\ raw' = [s \in 1..Len(SPORTS) |-> [kind |-> "cache"]]
    /\ games' = [s \in 1..Len(SPORTS) |-> <<>>]
    /\ out' = NoOutput
    /\ UNCHANGED <<clock, lineHistory, users>>

\* redis.get answers: b = 0 for no entry (or an error getCache turns into
\* null), else the entry CachedFeeds[b], returned when truthy (an array is)
CacheReplies(s, b) ==
    /\ raw[s].kind = "cache"
    /\ IF b = 0
       THEN raw' = [raw EXCEPT ![s] = [kind |-> "fetch"]] /\ UNCHANGED games
       ELSE /\ raw' = [raw EXCEPT ![s] = [kind |-> "ok", body |-> CachedFeeds[b]]]
            /\ games' = [games EXCEPT ![s] = Slice(CachedFeeds[b], 8)]
    /\ UNCHANGED <<clock, lineHistory, pc, out, users>>

\* fetch() settles within the timeout: it throws or answers a non-ok status
\* (k in FailKinds: return []), or answers ok
FetchAnswers(s, k) ==
    /\ raw[s].kind = "fetch"
    /\ raw' = [raw EXCEPT ![s] = [kind |-> IF k = "ok" THEN "body" ELSE k]]
    /\ UNCHANGED <<clock, lineHistory, pc, games, out, users>>

\* "await res.json()" inside the try: b = 0 when it throws (return []), else
\* the data, followed by "await setCache(cacheKey, data, 60)"
BodyRead(s, b) ==
    /\ raw[s].kind = "body"
    /\ raw' = [raw EXCEPT ![s] = IF b = 0 THEN [kind |-> "bad_json"]
                                 ELSE [kind |-> "store", body |-> CachedFeeds[b]]]
    /\ UNCHANGED <<clock, lineHistory, pc, games, out, users>>

\* redis.setEx answers (or fails, which setCache swallows): return data
StoreReplies(s) ==
    /\ raw[s].kind = "store"
    /\ raw' = [raw EXCEPT ![s] = [kind |-> "ok", body |-> raw[s].body]]
    /\ games' = [games EXCEPT ![s] = Slice(raw[s].body, 8)]
    /\ UNCHANGED <<clock, lineHistory, pc, out, users>>

\* Promise.all is fulfilled: 503 on an empty merged list, else the picks with
\* their random confidence, then "await detectSteamMoves('basketball_nba')"
CachedRespond ==
    /\ pc = "fetching"
    /\ AllSettled
    /\ LET allGames == Flat(games)
       IN  IF Len(allGames) = 0
           THEN pc' = "done" /\ out' = [out EXCEPT !.status = 503]
           ELSE /\ pc' = "steam"
                /\ \E c \in RandomConfidences :
                      out' = [out EXCEPT !.picks =
                                [i \in 1..Len(Slice(allGames, 5)) |->
                                    [game |-> <<allGames[i].away_team, "@",
                                                allGames[i].home_team>>,
                                     confidence |-> Z(c)]]]
    /\ UNCHANGED <<clock, lineHistory, raw, games, users>>

\* detectSteamMoves returns (its own cache lookups answered) and the handler
\* answers 200, or it throws and the catch answers 500
SteamReturns(ok) ==
    /\ pc = "steam"
    /\ pc' = "done"
    /\ out' = [out EXCEPT !.status = IF ok THEN 200 ELSE 500]
    /\ UNCHANGED <<clock, lineHistory, raw, games, users>>

CachedNext ==
    \/ CachedRequest
    \/ \E s \in 1..Len(SPORTS) : \E b \in 0..Len(CachedFeeds) : CacheReplies(s, b)
    \/ \E s \in 1..Len(SPORTS) : \E k \in FailKinds \cup {"ok"} : FetchAnswers(s, k)
    \/ \E s \in 1..Len(SPORTS) : \E b \in 0..Len(CachedFeeds) : BodyRead(s, b)
    \/ \E s \in 1..Len(SPORTS) : StoreReplies(s)
    \/ CachedRespond
    \/ \E ok \in BOOLEAN : SteamReturns(ok)

\* the steps the code bounds in time: the fetch and the reading of its body
\* under AbortSignal.timeout(8000), and the handler's own synchronous code
CachedFairness ==
    /\ WF_vars(\E s \in 1..Len(SPORTS) : \E k \in FailKinds \cup {"ok"} : FetchAnswers(s, k))
    /\ WF_vars(\E s \in 1..Len(SPORTS) : \E b \in 0..Len(CachedFeeds) : BodyRead(s, b))
    /\ WF_vars(CachedRespond)

SpecCached == Init /\ [][CachedNext]_vars /\ CachedFairness

-----------------------------------------------------------------------------
(* SpecRecord: calls of recordLineMovement one after the other, for any     *)
(* game, line and book, while Date.now() advances (src/index.js 615-627).   *)

\* the games, away points and books of the calls
RecordedGames == {<<"NBA", "H", "A">>, <<"NFL", "H", "A">>}
RecordedLines == {Z(3), Num(7, 2)}
RecordedBooks == {"pinnacle", "fanduel"}

\* the amounts by which Date.now() advances between two calls, and where the
\* clock stops
ClockSteps == {150000, 300000, 300001}
MaxClock == 600002

RecordInit ==
    /\ clock = 0
    /\ users = <<>>
    /\ lineHistory = <<>>
    /\ pc = "record"
    /\ raw = <<>>
    /\ games = <<>>
    /\ out = NoOutput

\* recordLineMovement(gameId, line, book)
RecordCall(gameId, line, book) ==
    /\ lineHistory' = recordLineMovement(lineHistory, clock, gameId, line, book)
    /\ UNCHANGED <<clock, pc, raw, games, out, users>>

\* time passes
ClockAdvances(d) ==
    /\ clock + d <= MaxClock
    /\ clock' = clock + d
    /\ UNCHANGED <<lineHistory, pc, raw, games, out, users>>

RecordNext ==
    \/ \E gameId \in RecordedGames, line \in RecordedLines, book \in RecordedBooks :
          RecordCall(gameId, line, book)
    \/ \E d \in ClockSteps : ClockAdvances(d)

SpecRecord == RecordInit /\ [][RecordNext]_vars

-----------------------------------------------------------------------------
(* SpecTier: the tier-limited GET /scan of the v5.1 variant (src/index.js   *)
(* 1855-1888) answering concurrent requests.  The handler awaits once, on   *)
(* getUserTier, and runs from there to its response without yielding; each  *)
(* request holds the user object of the Map users itself (req.user), never  *)
(* a copy.  clock is the index in Calendar of the present instant, pc the   *)
(* position of each request in flight, out the responses sent so far, each  *)
(* with the daily counter it was sent under (picksResetAt) and the number   *)
(* of requests that were in flight when it was sent (inFlight).             *)

\* TIERS, by its picksPerDay
TIERS ==
    [FREE  |-> [picksPerDay |-> 2],
     PRO   |-> [picksPerDay |-> 999],
     SHARP |-> [picksPerDay |-> 999]]

\* the instants of a run, in order, by what getMonth() and getDate() report
Calendar ==
    << [getMonth |-> 0, getDate |-> 31],
       [getMonth |-> 1, getDate |-> 1],
       [getMonth |-> 1, getDate |-> 1],
       [getMonth |-> 2, getDate |-> 1] >>

\* a subscriptionCurrentPeriodEnd after the last instant
PeriodOpen == Len(Calendar) + 1

\* a user as the sign-in routes create it
NewUser(id) ==
    [id |-> id, tier |-> "FREE", picksToday |-> 0, picksResetAt |-> 1]

\* the user after checkout.session.completed of a subscription of a tier
Subscriber(id, tier, periodEnd) ==
    [id |-> id, tier |-> tier, picksToday |-> 0, picksResetAt |-> 1,
     subscriptionId |-> "sub", subscriptionStatus |-> "active",
     subscriptionCurrentPeriodEnd |-> periodEnd]

\* the users whose effective tier stays what it is throughout the Calendar:
\* without a subscription, with one that runs on, with one that was over
\* before the first instant
SteadyUsers ==
    {NewUser("u1"), Subscriber("u1", "PRO", PeriodOpen),
     Subscriber("u1", "PRO", 0)}

\* the tokens requests carry: of the user, and of nobody
Tokens == {"u1", "nobody"}

\* the requests that can be in flight at once, and the responses of a run
Requests == 1..3
MaxResponses == 5

Idle == [at |-> "idle"]

InFlight == {r \in Requests : pc[r].at # "idle"}

\* getUserTier(userId) called at the instant now
getUserTier(userId, now) ==
    IF userId \notin DOMAIN users THEN "FREE"
    ELSE LET user == users[userId]
         IN  IF /\ "subscriptionId" \in DOMAIN user
                /\ user.subscriptionStatus = "active"
                /\ "subscriptionCurrentPeriodEnd" \in DOMAIN user
                /\ user.subscriptionCurrentPeriodEnd > now
             THEN user.tier
             ELSE "FREE"

\* lastReset.getDate() !== now.getDate() || lastReset.getMonth() !== now.getMonth()
ResetDue(user, now) ==
    \/ Calendar[user.picksResetAt].getDate # Calendar[now].getDate
    \/ Calendar[user.picksResetAt].getMonth # Calendar[now].getMonth

\* the handler without its limit: every scan is served
scanUnlimited(user, tier, now) ==
    LET tierConfig == TIERS[tier]
        reset == IF ResetDue(user, now)
                 THEN [user EXCEPT !.picksToday = 0, !.picksResetAt = now]
                 ELSE user
        served == [reset EXCEPT !.picksToday = @ + 1]
    IN  [user |-> served,
         res  |-> [status |-> 200,
                   remainingPicks |-> tierConfig.picksPerDay - served.picksToday]]

\* the handler from the end of its await on: the user it leaves and its response
scan(user, tier, now) ==
    LET tierConfig == TIERS[tier]
        reset == IF ResetDue(user, now)
                 THEN [user EXCEPT !.picksToday = 0, !.picksResetAt = now]
                 ELSE user
        served == [reset EXCEPT !.picksToday = @ + 1]
    IN  IF reset.picksToday >= tierConfig.picksPerDay
        THEN [user |-> reset,
              res  |-> [status |-> 403, limit |-> tierConfig.picksPerDay,
                        used |-> reset.picksToday]]
        ELSE [user |-> served,
              res  |-> [status |-> 200,
                        remainingPicks |-> tierConfig.picksPerDay - served.picksToday]]

TierInit ==
    /\ clock = 1
    /\ lineHistory = <<>>
    /\ pc = [r \in Requests |-> Idle]
    /\ raw = <<>>
    /\ games = <<>>
    /\ out = <<>>
    /\ \E user \in SteadyUsers : users = [id \in {user.id} |-> user]

\* a GET /scan arrives: authMiddleware answers 401 or sets req.user, and the
\* handler runs up to "await getUserTier(user.id)", whose body has no await
ScanArrives(r, token) ==
    /\ pc[r] = Idle
    /\ Len(out) + Cardinality(InFlight) < MaxResponses
    /\ IF token \notin DOMAIN users
       THEN /\ out' = Append(out, [userId |-> token, res |-> [status |-> 401]])
            /\ UNCHANGED pc
       ELSE /\ pc' = [pc EXCEPT ![r] = [at |-> "tier", userId |-> token,
                                         tier |-> getUserTier(users[token].id, clock)]]
            /\ UNCHANGED out
    /\ UNCHANGED <<clock, lineHistory, raw, games, users>>

\* the await of a request ends: the handler runs to its response
ScanAnswers(r) ==
    /\ pc[r].at = "tier"
    /\ LET answer == scan(users[pc[r].userId], pc[r].tier, clock)
       IN  /\ users' = [users EXCEPT ![pc[r].userId] = answer.user]
           /\ out' = Append(out, [userId |-> pc[r].userId,
                                  picksResetAt |-> answer.user.picksResetAt,
                                  inFlight |-> Cardinality(InFlight),
                                  res |-> answer.res])
    /\ pc' = [pc EXCEPT ![r] = Idle]
    /\ UNCHANGED <<clock, lineHistory, raw, games>>

\* the next instant of the Calendar comes
TimePasses ==
    /\ clock < Len(Calendar)
    /\ clock' = clock + 1
    /\ UNCHANGED <<lineHistory, pc, raw, games, out, users>>

TierNext ==
    \/ \E r \in Requests, token \in Tokens : ScanArrives(r, token)
    \/ \E r \in Requests : ScanAnswers(r)
    \/ TimePasses

SpecTier == TierInit /\ [][TierNext]_vars

-----------------------------------------------------------------------------
(* Properties of a run of the pipeline (SpecPipe) *)

\* the number of entries of the array arr equal to x
Count(arr, x) == Cardinality({i \in 1..Len(arr) : arr[i] = x})

\* the arrays hold the same entries, each as many times
SameEntries(a, b) ==
    /\ Len(a) = Len(b)
    /\ \A i \in 1..Len(a) : Count(a, a[i]) = Count(b, a[i])

\* the value picks of a game with their confidence and displayed edge
Scored(game, hist) ==
    LET sig == Signals(game, hist)
    IN  Map(sig.value, LAMBDA vp : Candidate(game, vp, sig, hist))

\* the scored value picks of a game that have confidence >= 65 and edge >= 3.5
PassGate(game, hist) ==
    Filter(Scored(game, hist),
           LAMBDA c : Ge(c.confidence, Z(65)) /\ Ge(c.edge, Num(35, 10)))

\* C1: every emitted pick has confidence >= 65 and displayed edge >= 3.5, and
\* the candidates that reach the sort are exactly the value picks of the games
\* with confidence >= 65 and displayed edge >= 3.5: nothing else discards one.
C1_AdmissionGate ==
    pc = "done" =>
        /\ \A i \in 1..Len(out.picks) :
              Ge(out.picks[i].confidence, Z(65)) /\ Ge(out.picks[i].edge, Num(35, 10))
        /\ SameEntries(out.candidates,
                       Flat(Map(games, LAMBDA g : PassGate(g, lineHistory))))

\* C1 witness: a run in which one game has a value pick that was emitted and a
\* value pick of confidence >= 65 that the edge gate alone discarded
C1_Witness ==
    /\ pc = "done"
    /\ Len(out.picks) > 0
    /\ \E i \in 1..Len(games) :
          \E k \in 1..Len(Scored(games[i], lineHistory)) :
             LET c == Scored(games[i], lineHistory)[k]
             IN  Ge(c.confidence, Z(65)) /\ Lt(c.edge, Num(35, 10))

\* C2: the candidates are ranked in non-increasing raw score, the ranking only
\* reorders the admitted candidates, and the picks are the first TopN = 8 of
\* the ranking in that order: at most 8 picks, and no candidate left out
\* outscores an emitted one.
C2_RankedByScore ==
    pc = "done" =>
        LET c == out.candidates
            p == out.picks
        IN  /\ SameEntries(c, Candidates(games, lineHistory))
            /\ \A i, j \in 1..Len(c) : i < j => Ge(c[i].score, c[j].score)
            /\ Len(p) = (IF Len(c) < 8 THEN Len(c) ELSE 8)
            /\ \A i \in 1..Len(p) : p[i] = Pick(c[i], i - 1)
            /\ \A i \in 1..Len(p) : \A j \in (Len(p) + 1)..Len(c) :
                  ~Gt(c[j].score, c[i].score)

\* C2 witness: more than 8 admitted candidates, and two emitted picks that the
\* displayed edge would rank the other way round
C2_Witness ==
    /\ pc = "done"
    /\ Len(out.candidates) > 8
    /\ \E i, j \in 1..Len(out.picks) :
          /\ i < j
          /\ Gt(out.candidates[i].score, out.candidates[j].score)
          /\ Lt(out.picks[i].edge, out.picks[j].edge)

\* the lines of a game in the market an opportunity's type names
MarketLines(game, type) ==
    IF type = "spread" THEN game.spreadLines
    ELSE IF type = "moneyline" THEN game.mlLines ELSE <<>>

\* the total implied probability of backing away at one line and home at another
PairTotal(away, home) == Add(impliedProb(away.awayPrice), impliedProb(home.homePrice))

\* C5: every Line of a parsed game has both sides of its market populated:
\* no spread, total or moneyline Line carries a missing point or price.
C5_LinesPopulated ==
    pc # "raw" =>
        \A i \in 1..Len(games) :
            /\ \A k \in 1..Len(games[i].spreadLines) :
                  LET l == games[i].spreadLines[k]
                  IN  /\ l.homePoint # Undefined /\ l.homePrice # Undefined
                      /\ l.awayPoint # Undefined /\ l.awayPrice # Undefined
            /\ \A k \in 1..Len(games[i].totalLines) :
                  LET l == games[i].totalLines[k]
                  IN  /\ l.point # Undefined
                      /\ l.overPrice # Undefined /\ l.underPrice # Undefined
            /\ \A k \in 1..Len(games[i].mlLines) :
                  LET l == games[i].mlLines[k]
                  IN  l.homePrice # Undefined /\ l.awayPrice # Undefined

\* C6: every reported opportunity pairs the away side at one line with the
\* home side at a line of a different bookmaker, both in the same game and
\* market, with total implied probability below 0.98, and reports a profit
\* above zero.
C6_ArbSound ==
    pc \in {"arbs", "done"} =>
        \A k \in 1..Len(out.arbs) :
            LET o == out.arbs[k]
            IN  /\ Gt(o.profit, Z(0))
                /\ o.type \in {"spread", "moneyline"}
                /\ \E i \in 1..Len(games) :
                      /\ games[i].game = o.game
                      /\ LET ls == MarketLines(games[i], o.type)
                         IN  \E a, h \in 1..Len(ls) :
                                /\ ls[a].book = o.awayBook
                                /\ ls[h].book = o.homeBook
                                /\ ls[a].book # ls[h].book
                                /\ fmtOdds(ls[a].awayPrice) = o.awayOdds
                                /\ fmtOdds(ls[h].homePrice) = o.homeOdds
                                /\ Lt(PairTotal(ls[a], ls[h]), Num(98, 100))

\* C6 witness: the detector has reported a spread and a moneyline opportunity
\* for a game in which one book alone quotes both sides below 0.98
C6_Witness ==
    /\ pc = "arbs"
    /\ \E j, k \in 1..Len(out.arbs) :
          out.arbs[j].type = "spread" /\ out.arbs[k].type = "moneyline"
    /\ \E i \in 1..Len(games) : \E a \in 1..Len(games[i].spreadLines) :
          Lt(PairTotal(games[i].spreadLines[a], games[i].spreadLines[a]), Num(98, 100))

\* C7: for every two lines of different bookmakers in the same game and
\* market (spread or moneyline) whose away and home implied probabilities
\* total below 0.98, the result holds an opportunity for that pair of books
\* whose profit is (1/total - 1) * 100, printed with two decimals, and above 0.
C7_ArbComplete ==
    pc \in {"arbs", "done"} =>
        \A i \in 1..Len(games) : \A type \in {"spread", "moneyline"} :
            LET ls == MarketLines(games[i], type)
            IN  \A a, h \in 1..Len(ls) :
                   (ls[a].book # ls[h].book /\ Lt(PairTotal(ls[a], ls[h]), Num(98, 100)))
                   => \E k \in 1..Len(out.arbs) :
                         LET o == out.arbs[k]
                         IN  /\ o.type = type
                             /\ o.game = games[i].game
                             /\ o.awayBook = ls[a].book
                             /\ o.homeBook = ls[h].book
                             /\ o.awayOdds = fmtOdds(ls[a].awayPrice)
                             /\ o.homeOdds = fmtOdds(ls[h].homePrice)
                             /\ o.profit =
                                  ToFixed(Mul(Sub(Div(Z(1), PairTotal(ls[a], ls[h])), Z(1)),
                                              Z(100)), 2)
                             /\ Gt(o.profit, Z(0))

\* C7 witness: a game of three spread books in which one pair of different
\* books totals between 0.90 and 0.98 and another pair totals 0.98 or more
C7_Witness ==
    /\ pc = "arbs"
    /\ \E i \in 1..Len(games) :
          LET ls == games[i].spreadLines
          IN  /\ Len(ls) >= 3
              /\ \E a, h \in 1..Len(ls) :
                    /\ ls[a].book # ls[h].book
                    /\ Lt(PairTotal(ls[a], ls[h]), Num(98, 100))
                    /\ Ge(PairTotal(ls[a], ls[h]), Num(90, 100))
              /\ \E a, h \in 1..Len(ls) :
                    /\ ls[a].book # ls[h].book
                    /\ Ge(PairTotal(ls[a], ls[h]), Num(98, 100))

\* C8: every opportunity, spread or moneyline, carries a stake split whose two
\* shares sum to 100 within 0.01.
C8_StakeSplit ==
    pc \in {"arbs", "done"} =>
        \A k \in 1..Len(out.arbs) :
            /\ "stake" \in DOMAIN out.arbs[k]
            /\ Le(MathAbs(Sub(Add(out.arbs[k].stake.away, out.arbs[k].stake.home), Z(100))),
                  Num(1, 100))

\* C9: the opportunities of all games and both markets are pooled into one
\* list, and that list is in non-increasing order of profit.
C9_ArbsSortedByProfit ==
    pc \in {"arbs", "done"} =>
        /\ SameEntries(out.arbs, Flat(Map(games, GameArbs)))
        /\ \A j, k \in 1..Len(out.arbs) :
              j < k => Ge(out.arbs[j].profit, out.arbs[k].profit)

\* C9 witness: opportunities of two games and of both markets, pushed by the
\* loops in an order that is not the order of profit
C9_Witness ==
    /\ pc = "arbs"
    /\ \E j, k \in 1..Len(out.arbs) :
          /\ out.arbs[j].game # out.arbs[k].game
          /\ out.arbs[j].type = "spread" /\ out.arbs[k].type = "moneyline"
    /\ LET pooled == Flat(Map(games, GameArbs))
       IN  \E j, k \in 1..Len(pooled) : j < k /\ Lt(pooled[j].profit, pooled[k].profit)

-----------------------------------------------------------------------------
(* Properties of the server (Spec) *)

\* the list of games the feed of sport s delivered in this scan
Delivered(s) == IF raw[s].kind = "ok" THEN raw[s].body ELSE <<>>

\* the same bodies parsed sport by sport from sport s on, at time 0, starting
\* with the map hist: the merged games and the map left
RECURSIVE ParseSports(_, _)
ParseSports(s, hist) ==
    IF s > Len(SPORTS) THEN [games |-> <<>>, hist |-> hist]
    ELSE LET first == ParseAll(Slice(Delivered(s), 8), SPORTS[s], hist, 0)
             rest == ParseSports(s + 1, first.hist)
         IN  [games |-> first.games \o rest.games, hist |-> rest.hist]

\* C3: a scan's pick list and arbitrage list are those that the same raw
\* input gives on a process that has scanned nothing before: the output does
\* not depend on the clock or on what earlier scans left in lineHistory.
C3_Idempotent ==
    (pc = "done" /\ out.status = 200) =>
        LET fresh == ParseSports(1, <<>>)
        IN  /\ out.picks = agentConsensus(fresh.games, fresh.hist)
            /\ out.arbs = Slice(detectArbitrage(fresh.games), 5)

\* C4: agentLineMovement, like the other five agents, returns for a game what
\* it returns for that game whatever the map lineHistory holds: the same
\* signals as with an empty map.
C4_AgentsPure ==
    \A s \in 1..Len(games) : \A k \in 1..Len(games[s]) :
        agentLineMovement(games[s][k], lineHistory)
            = agentLineMovement(games[s][k], <<>>)

\* C10: when the scan has answered and every fetch is settled, a sport whose
\* fetch failed at any stage, next to another sport that delivered games, has
\* contributed no game, and the answer is the success answer with the picks
\* and the opportunities of the games of the other sports.
C10_FailedSportIsEmpty ==
    (pc = "done" /\ NoPending) =>
        \A s \in 1..Len(SPORTS) :
            (/\ raw[s].kind \in FailKinds \cup RejectKinds
             /\ \E t \in 1..Len(SPORTS) : t # s /\ Len(Delivered(t)) > 0)
            => /\ games[s] = <<>>
               /\ out.status = 200
               /\ out.picks = agentConsensus(Flat(games), lineHistory)
               /\ out.arbs = Slice(detectArbitrage(Flat(games)), 5)

\* every fetch of the scan is settled and none of them rejected: the handler
\* has the merged list oddsResults.flat()
Merged == NoPending /\ \A s \in 1..Len(SPORTS) : raw[s].kind \notin RejectKinds

Faulty(g) ==
    "bookmakers" \in DOMAIN g /\
    \E b \in 1..Len(g.bookmakers) :
        \/ "markets" \notin DOMAIN g.bookmakers[b]
        \/ \E m \in 1..Len(g.bookmakers[b].markets) :
              LET mkt == g.bookmakers[b].markets[m]
              IN  \E o \in 1..Len(mkt.outcomes) :
                     \/ "price" \notin DOMAIN mkt.outcomes[o]
                     \/ mkt.key # "h2h" /\ "point" \notin DOMAIN mkt.outcomes[o]

\* the parsed games of this scan whose raw game is not faulty
SoundGames ==
    Flat([s \in 1..Len(SPORTS) |->
            Flat([k \in 1..Len(games[s]) |->
                    IF Faulty(raw[s].body[k]) THEN <<>> ELSE <<games[s][k]>>])])

\* C12: a scan whose feeds all answered (a list of games, or a failure that
\* fetchSportOdds turns into an empty list) is not failed by a faulty game: it
\* does not answer 500, its picks are those of the games that are not faulty,
\* and no pick or candidate carries a NaN score, confidence or edge.
C12_FaultyGameContained ==
    (pc = "done" /\ NoPending /\ \A s \in 1..Len(SPORTS) : raw[s].kind \notin RejectKinds)
    => /\ out.status # 500
       /\ out.picks = agentConsensus(SoundGames, lineHistory)
       /\ \A i \in 1..Len(out.picks) :
             ~IsNaN(out.picks[i].confidence) /\ ~IsNaN(out.picks[i].edge)
       /\ \A i \in 1..Len(out.candidates) : ~IsNaN(out.candidates[i].score)

\* C13: every scan request is eventually answered: once the fetches of a scan
\* have started, the handler sends a response (200, 503 or 500), whatever the
\* upstream of a sport and the cache do.
C13_EveryScanAnswered == (pc \in {"fetching", "steam"}) ~> (out.status # 0)

-----------------------------------------------------------------------------
(* Properties of the consensus score (SpecPipe) *)

\* a for strong, b for moderate, c for anything else
C14_Points(strength, a, b, c) ==
    CASE strength = "strong" -> a
      [] strength = "moderate" -> b
      [] OTHER -> c

\* the first entry of arr that satisfies Test, as a list of at most one entry
C14_First(arr, Test(_)) ==
    LET hits == Filter(arr, Test) IN IF hits = <<>> THEN <<>> ELSE <<Head(hits)>>

\* the table of contributions for the value pick vp of a game with signals sig
C14_Table(vp, sig) ==
    LET lineOn == C14_First(sig.line, LAMBDA l : "side" \in DOMAIN l /\ l.side = vp.team)
        pubOn == C14_First(sig.public, LAMBDA q : q.market = vp.market)
        sharpOn == C14_First(sig.sharp, LAMBDA s : s.sharpSide = vp.team)
        sitOn == C14_First(sig.situational, LAMBDA s : s.side = vp.team)
        value == IF Lt(Mul(vp.edge, Num(9, 2)), Z(35)) THEN Mul(vp.edge, Num(9, 2)) ELSE Z(35)
        line == IF lineOn = <<>> THEN 0 ELSE C14_Points(lineOn[1].strength, 20, 12, 6)
        public == IF pubOn = <<>> \/ pubOn[1].contrarianSide # vp.team THEN 0
                  ELSE IF Gt(pubOn[1].publicPct, Z(68)) THEN 20
                  ELSE IF Gt(pubOn[1].publicPct, Z(60)) THEN 13 ELSE 7
        sharp == IF sharpOn = <<>> THEN 0
                 ELSE C14_Points(sharpOn[1].signal, 22, 13, 7)
                      + (IF sharpOn[1].type = "RLM" THEN 5 ELSE 0)
        penalty == IF sig.injury.flags[1].severity = "none" THEN 0 ELSE 10
        sit == IF sitOn = <<>> THEN 0 ELSE C14_Points(sitOn[1].strength, 15, 9, 5)
    IN  [value |-> value, line |-> line, public |-> public, sharp |-> sharp,
         penalty |-> penalty, sit |-> sit]

\* the value pick vp has a raw edge of 10 or more, a strong line-movement
\* match, a strong RLM match, no injury flag and a strong situational match
C14_Example(vp, sig) ==
    LET t == C14_Table(vp, sig)
    IN  /\ Ge(vp.edge, Z(10))
        /\ t.line = 20
        /\ t.sharp = 27
        /\ t.penalty = 0
        /\ t.sit = 15

\* C14 as it holds: for every value pick of every game the composite score is
\* the sum of the table (value min(edge*4.5, 35); line 20/12/6 for the first
\* line-movement signal on the pick's team; public 20/13/7 only when the
\* public signal of the pick's market has the pick's team as contrarian side;
\* sharp 22/13/7 for the first sharp signal naming the team, plus 5 when it is
\* RLM; minus 10 when the game has an injury flag; situational 15/9/5), and a
\* pick with edge >= 10, strong line, strong RLM, no injury flag and strong
\* situational match scores at least 97, gets confidence at least 83 (90 only
\* from score 107 on) and passes the gate.
C14_ScoreTable ==
    (pc = "done" /\ out.status = 200) =>
        \A i \in 1..Len(games) :
            LET sig == Signals(games[i], lineHistory)
            IN  \A k \in 1..Len(sig.value) :
                    LET vp == sig.value[k]
                        c == Candidate(games[i], vp, sig, lineHistory)
                        t == C14_Table(vp, sig)
                    IN  /\ c.score = Add(t.value,
                                         Z(t.line + t.public + t.sharp - t.penalty + t.sit))
                        /\ C14_Example(vp, sig) =>
                              /\ Ge(c.score, Z(97))
                              /\ Ge(c.confidence, Z(83))
                              /\ Count(out.candidates, c) > 0

\* C14 witness: a pick with edge >= 10, strong line, strong RLM, no injury flag
\* and strong situational match that scored exactly 97, was given confidence
\* 83 and was emitted
C14_Witness ==
    /\ pc = "done"
    /\ \E i \in 1..Len(games) :
          LET sig == Signals(games[i], lineHistory)
          IN  \E k \in 1..Len(sig.value) :
                 LET c == Candidate(games[i], sig.value[k], sig, lineHistory)
                 IN  /\ C14_Example(sig.value[k], sig)
                     /\ c.score = Z(97)
                     /\ c.confidence = Z(83)
                     /\ \E j \in 1..Len(out.picks) :
                           out.picks[j].bet = c.bet /\ out.picks[j].confidence = Z(83)

\* C14 as stated: a pick with edge 10, strong line, strong RLM, no injury flag
\* and strong situational match gets confidence 90.
C14_ExampleConfidence90 ==
    pc = "done" =>
        \A i \in 1..Len(games) :
            LET sig == Signals(games[i], lineHistory)
            IN  \A k \in 1..Len(sig.value) :
                    C14_Example(sig.value[k], sig) =>
                        Candidate(games[i], sig.value[k], sig, lineHistory).confidence = Z(90)


\* r is x rounded to the nearest multiple of 1/per
C15_Rounds(r, x, per) ==
    /\ Mul(r, Z(per))[2] = 1
    /\ Le(MathAbs(Sub(r, x)), Num(1, 2 * per))

\* v is x rounded to a multiple of 1/per and then clamped to lo..hi
C15_Clamped(v, x, per, lo, hi) ==
    /\ Ge(v, lo) /\ Le(v, hi)
    /\ (Gt(v, lo) /\ Lt(v, hi)) => C15_Rounds(v, x, per)
    /\ v = lo => Le(x, Add(lo, Num(1, 2 * per)))
    /\ v = hi => Ge(x, Sub(hi, Num(1, 2 * per)))

\* C15: for every value pick that agentConsensus scores, confidence is
\* round(score * 0.65 + 20) clamped to 55..90 and the displayed edge is the raw
\* edge times 0.88 rounded to one decimal and clamped to 0..14; every emitted
\* pick has 65 <= confidence <= 90 and 3.5 <= edge <= 14.
C15_Clamps ==
    (pc = "done" /\ out.status = 200) =>
        /\ \A i \in 1..Len(games) :
              LET sig == Signals(games[i], lineHistory)
              IN  \A k \in 1..Len(sig.value) :
                     LET c == Candidate(games[i], sig.value[k], sig, lineHistory)
                     IN  /\ C15_Clamped(c.confidence,
                                        Add(Mul(c.score, Num(65, 100)), Z(20)),
                                        1, Z(55), Z(90))
                         /\ C15_Clamped(c.edge, Mul(sig.value[k].edge, Num(88, 100)),
                                        10, Z(0), Z(14))
        /\ \A j \in 1..Len(out.picks) :
              /\ Ge(out.picks[j].confidence, Z(65)) /\ Le(out.picks[j].confidence, Z(90))
              /\ Ge(out.picks[j].edge, Num(35, 10)) /\ Le(out.picks[j].edge, Z(14))

\* C15 witness: an emitted pick whose confidence was cut down to 90 and whose
\* displayed edge was cut down to 14
C15_Witness ==
    /\ pc = "done"
    /\ \E i \in 1..Len(games) :
          LET sig == Signals(games[i], lineHistory)
          IN  \E k \in 1..Len(sig.value) :
                 LET c == Candidate(games[i], sig.value[k], sig, lineHistory)
                 IN  /\ Gt(Add(Mul(c.score, Num(65, 100)), Z(20)), Z(91))
                     /\ Gt(Mul(sig.value[k].edge, Num(88, 100)), Z(15))
                     /\ \E j \in 1..Len(out.picks) :
                           /\ out.picks[j].bet = c.bet
                           /\ out.picks[j].confidence = Z(90)
                           /\ out.picks[j].edge = Z(14)

\* the place of the candidate x in the array e
C16_Place(e, x) == CHOOSE n \in 1..Len(e) : e[n] = x

\* C16: candidates with equal raw score come out of the sort in the order in
\* which they were pushed (games in the order of the list, the value picks of
\* a game in the order agentValue returned them), and when a tie spans the
\* top-8 cut the emitted ones are those pushed earlier.
C16_TiesKeepEncounterOrder ==
    (pc = "done" /\ out.status = 200) =>
        LET c == out.candidates
            e == Candidates(games, lineHistory)
            p == out.picks
        IN  /\ \A i \in 1..Len(c) :
                  Filter(c, LAMBDA x : x.score = c[i].score)
                      = Filter(e, LAMBDA x : x.score = c[i].score)
            /\ \A i \in 1..Len(p) :
                  /\ p[i].bet = c[i].bet /\ p[i].homeTeam = c[i].game.homeTeam
                  /\ \A j \in (Len(p) + 1)..Len(c) :
                        c[i].score = c[j].score => C16_Place(e, c[i]) < C16_Place(e, c[j])

\* C16 witness: more than 8 candidates, the 8th and the 9th of the same score
\* and of different games, and two tied candidates of one game among the picks
C16_Witness ==
    /\ pc = "done"
    /\ Len(out.candidates) > 8
    /\ out.candidates[8].score = out.candidates[9].score
    /\ out.candidates[8].game # out.candidates[9].game
    /\ \E i \in 1..7 :
          /\ out.candidates[i].score = out.candidates[i + 1].score
          /\ out.candidates[i].game = out.candidates[i + 1].game
          /\ out.candidates[i].bet # out.candidates[i + 1].bet

-----------------------------------------------------------------------------
(* Properties of the math utils and of the agents (SpecPipe) *)

\* every price of the lines is a number
C17_Priced(lines) ==
    \A i \in 1..Len(lines) :
        /\ lines[i].homePrice # Undefined /\ ~IsNaN(lines[i].homePrice)
        /\ lines[i].awayPrice # Undefined /\ ~IsNaN(lines[i].awayPrice)

\* the pair is two probabilities that sum to 1
C17_Distribution(pair) ==
    /\ Ge(pair.side1, Z(0)) /\ Le(pair.side1, Z(1))
    /\ Ge(pair.side2, Z(0)) /\ Le(pair.side2, Z(1))
    /\ Add(pair.side1, pair.side2) = Z(1)

\* the pair devig returns for the mean prices of the lines
C17_DevigOfMeans(lines) ==
    devig(avg(Map(lines, LAMBDA l : l.homePrice)), avg(Map(lines, LAMBDA l : l.awayPrice)))

\* C17: each pair of mean prices that agentValue passes to devig (spread and
\* moneyline, two lines or more, every price a number) comes back as two
\* probabilities in [0, 1] that sum to 1.
C17_DevigSumsToOne ==
    pc \in {"parsed", "arbs", "done"} =>
        \A i \in 1..Len(games) :
            /\ (Len(games[i].spreadLines) >= 2 /\ C17_Priced(games[i].spreadLines))
                  => C17_Distribution(C17_DevigOfMeans(games[i].spreadLines))
            /\ (Len(games[i].mlLines) >= 2 /\ C17_Priced(games[i].mlLines))
                  => C17_Distribution(C17_DevigOfMeans(games[i].mlLines))

\* the spread picks of the game among the value picks it was given
C18_SpreadPicks(game) == Filter(agentValue(game), LAMBDA p : p.market = "spread")

\* 100 * (devigged probability of the side from the mean prices of all books
\* - implied probability of the best price of the side)
C18_Edge(lines, side) ==
    LET own == Map(lines, LAMBDA l : IF side = "home" THEN l.homePrice ELSE l.awayPrice)
        fair == C17_DevigOfMeans(lines)
    IN  Mul(Sub(IF side = "home" THEN fair.side1 ELSE fair.side2,
                impliedProb(MathMax(own))),
            Z(100))

\* C18: agentValue returns a spread pick for a side exactly when the game has
\* at least 2 spread lines and the side's edge is > 2.5; the pick carries that
\* edge, the side's team and the greatest price offered for the side; the home
\* pick comes before the away pick.
C18_SpreadValue ==
    pc \in {"parsed", "arbs", "done"} =>
        \A i \in 1..Len(games) :
            LET sl == games[i].spreadLines
                picks == C18_SpreadPicks(games[i])
                Has(side) == \E k \in 1..Len(picks) : picks[k].side = side
            IN  /\ Len(sl) < 2 => picks = <<>>
                /\ \A side \in {"home", "away"} :
                      Has(side) <=> (Len(sl) >= 2 /\ Gt(C18_Edge(sl, side), Num(5, 2)))
                /\ \A k \in 1..Len(picks) :
                      LET own == Map(sl, LAMBDA l : IF picks[k].side = "home"
                                                    THEN l.homePrice ELSE l.awayPrice)
                      IN  /\ picks[k].edge = C18_Edge(sl, picks[k].side)
                          /\ picks[k].odds[2] = MathMax(own)
                          /\ \A m \in 1..Len(own) : ~Gt(own[m], picks[k].odds[2])
                          /\ picks[k].team = (IF picks[k].side = "home"
                                              THEN games[i].homeTeam ELSE games[i].awayTeam)
                /\ Len(picks) <= 2
                /\ Len(picks) = 2 => (picks[1].side = "home" /\ picks[2].side = "away")

\* C18 witness: a game with two or more spread lines that has a spread pick on
\* one side only, the other side's edge being a number not above 2.5, the
\* pick's odds better than what another book offers for the side
C18_Witness ==
    /\ pc = "done"
    /\ \E i \in 1..Len(games) :
          LET sl == games[i].spreadLines
              picks == C18_SpreadPicks(games[i])
          IN  /\ Len(sl) >= 2
              /\ Len(picks) = 1
              /\ Le(C18_Edge(sl, IF picks[1].side = "home" THEN "away" ELSE "home"),
                    Num(5, 2))
              /\ \E m \in 1..Len(sl) :
                    Lt(IF picks[1].side = "home" THEN sl[m].homePrice ELSE sl[m].awayPrice,
                       picks[1].odds[2])

\* the moneyline picks of the game among the value picks it was given
C19_MoneylinePicks(game) == Filter(agentValue(game), LAMBDA p : p.market = "moneyline")

\* C19: agentValue returns at most one moneyline pick, on the away team; it
\* returns one exactly when the game has at least 2 moneyline lines, the away
\* edge (devigged away probability of the mean prices minus the implied
\* probability of the best away price, times 100) is > 3.5 and the best away
\* price is > +110; the pick carries the best away price; no moneyline pick is
\* on the home side.
C19_MoneylineValue ==
    pc \in {"parsed", "arbs", "done"} =>
        \A i \in 1..Len(games) :
            LET ml == games[i].mlLines
                picks == C19_MoneylinePicks(games[i])
                best == MathMax(Map(ml, LAMBDA l : l.awayPrice))
            IN  /\ Len(picks) <= 1
                /\ Len(picks) = 1 <=> /\ Len(ml) >= 2
                                      /\ Gt(C18_Edge(ml, "away"), Num(7, 2))
                                      /\ Gt(best, Z(110))
                /\ \A k \in 1..Len(picks) :
                      /\ picks[k].side = "away"
                      /\ picks[k].team = games[i].awayTeam
                      /\ picks[k].team # games[i].homeTeam
                      /\ picks[k].odds[2] = best
                      /\ picks[k].edge = C18_Edge(ml, "away")

\* C19 witness: a game for which agentValue returned a moneyline pick on the
\* away team at a best away price above +110, while the home edge of the same
\* game is above 3.5 at a best home price above +110 and gave no pick
C19_Witness ==
    /\ pc = "done"
    /\ \E i \in 1..Len(games) :
          LET ml == games[i].mlLines
              picks == C19_MoneylinePicks(games[i])
          IN  /\ Len(picks) = 1
              /\ picks[1].team = games[i].awayTeam
              /\ Gt(picks[1].odds[2], Z(110))
              /\ Gt(C18_Edge(ml, "home"), Num(7, 2))
              /\ Gt(MathMax(Map(ml, LAMBDA l : l.homePrice)), Z(110))

\* the signals of agentLineMovement on the range of the away points
C20_Range(game, hist) ==
    Filter(agentLineMovement(game, hist), LAMBDA l : "type" \notin DOMAIN l)

\* the signals of agentLineMovement on sharp against square books
C20_SharpVsSquare(game, hist) ==
    Filter(agentLineMovement(game, hist),
           LAMBDA l : "type" \in DOMAIN l /\ l.type = "sharp_vs_square")

\* r is max - min of the away points of the lines
C20_IsRange(r, lines) ==
    /\ \E a, b \in 1..Len(lines) : Sub(lines[a].awayPoint, lines[b].awayPoint) = r
    /\ \A a, b \in 1..Len(lines) : Le(Sub(lines[a].awayPoint, lines[b].awayPoint), r)

\* C20: with fewer than 2 spread lines agentLineMovement returns nothing. With
\* 2 or more it returns a range signal exactly when max - min of the away
\* points is >= 0.5, on the away team, with the largest away point as best
\* line and strength weak below 1, moderate from 1 and below 1.5, strong from
\* 1.5; and when sharp and square books both have spread lines, a
\* sharp_vs_square signal exactly when the means of their away points differ
\* by >= 0.5, on the away team when the sharp mean is the higher and on the
\* home team otherwise, strong from a difference of 1 and moderate below.
C20_LineMovement ==
    pc \in {"parsed", "arbs", "done"} =>
        \A i \in 1..Len(games) :
            LET sl == games[i].spreadLines
                range == C20_Range(games[i], lineHistory)
                svs == C20_SharpVsSquare(games[i], lineHistory)
                sharp == Filter(sl, LAMBDA l : l.isSharp)
                square == Filter(sl, LAMBDA l : ~l.isSharp)
                diff == Sub(avg(Map(sharp, LAMBDA l : l.awayPoint)),
                            avg(Map(square, LAMBDA l : l.awayPoint)))
            IN  /\ Len(sl) < 2 => agentLineMovement(games[i], lineHistory) = <<>>
                /\ Len(range) <= 1 /\ Len(svs) <= 1
                /\ Len(range) = 1 <=>
                      /\ Len(sl) >= 2
                      /\ \E a, b \in 1..Len(sl) :
                            Ge(Sub(sl[a].awayPoint, sl[b].awayPoint), Num(1, 2))
                /\ \A k \in 1..Len(range) :
                      /\ C20_IsRange(range[k].spread, sl)
                      /\ range[k].side = games[i].awayTeam
                      /\ \A a \in 1..Len(sl) : Le(sl[a].awayPoint, range[k].bestLine[2])
                      /\ \E a \in 1..Len(sl) : sl[a].awayPoint = range[k].bestLine[2]
                      /\ range[k].strength =
                            (IF Lt(range[k].spread, Z(1)) THEN "weak"
                             ELSE IF Lt(range[k].spread, Num(3, 2)) THEN "moderate"
                             ELSE "strong")
                /\ Len(svs) = 1 <=>
                      /\ Len(sl) >= 2
                      /\ sharp # <<>> /\ square # <<>>
                      /\ (Ge(diff, Num(1, 2)) \/ Le(diff, Num(-1, 2)))
                /\ \A k \in 1..Len(svs) :
                      /\ svs[k].side = (IF Gt(diff, Z(0)) THEN games[i].awayTeam
                                        ELSE games[i].homeTeam)
                      /\ svs[k].strength =
                            (IF Ge(diff, Z(1)) \/ Le(diff, Z(-1)) THEN "strong"
                             ELSE "moderate")

\* C20 witness: a game whose sharp book gives the away team half a point less
\* than the square book, with a weak range signal that carries the square
\* book's point and a moderate sharp_vs_square signal on the home team
C20_Witness ==
    /\ pc = "done"
    /\ \E i \in 1..Len(games) :
          LET range == C20_Range(games[i], lineHistory)
              svs == C20_SharpVsSquare(games[i], lineHistory)
          IN  /\ Len(range) = 1 /\ range[1].strength = "weak"
              /\ range[1].spread = Num(1, 2)
              /\ Len(svs) = 1 /\ svs[1].strength = "moderate"
              /\ svs[1].side = games[i].homeTeam
              /\ \E a \in 1..Len(games[i].spreadLines) :
                    /\ ~games[i].spreadLines[a].isSharp
                    /\ games[i].spreadLines[a].awayPoint = range[1].bestLine[2]

\* the spread lines of the non-sharp books of the game
C21_Square(game) == Filter(game.spreadLines, LAMBDA l : ~l.isSharp)

\* the mean implied probability of a side over the lines
C21_Juice(lines, side) ==
    avg(Map(lines, LAMBDA l : impliedProb(IF side = "home" THEN l.homePrice ELSE l.awayPrice)))

\* C21: agentPublicMoney returns nothing when no non-sharp book has a spread
\* line, and otherwise exactly one signal: publicSide the team with the higher
\* mean implied probability over the non-sharp lines, publicPct =
\* min(80, max(55, round(higher mean * 100) + 8)) within 55..80,
\* contrarianSide the other team, contrarianPct = 100 - publicPct; the output
\* is the same with the sharp books' lines taken away.
C21_PublicMoney ==
    pc \in {"parsed", "arbs", "done"} =>
        \A i \in 1..Len(games) :
            LET g == games[i]
                sq == C21_Square(g)
                sig == agentPublicMoney(g)
                home == C21_Juice(sq, "home")
                away == C21_Juice(sq, "away")
                higher == IF Lt(home, away) THEN away ELSE home
            IN  /\ sq = <<>> => sig = <<>>
                /\ sq # <<>> =>
                      /\ Len(sig) = 1
                      /\ Gt(home, away) => sig[1].publicSide = g.homeTeam
                      /\ Gt(away, home) => sig[1].publicSide = g.awayTeam
                      /\ sig[1].publicSide \in {g.homeTeam, g.awayTeam}
                      /\ sig[1].contrarianSide \in {g.homeTeam, g.awayTeam}
                      /\ sig[1].contrarianSide # sig[1].publicSide
                      /\ Ge(sig[1].publicPct, Z(55)) /\ Le(sig[1].publicPct, Z(80))
                      /\ C15_Clamped(sig[1].publicPct,
                                     Add(Mul(higher, Z(100)), Z(8)), 1, Z(55), Z(80))
                      /\ sig[1].contrarianPct = Sub(Z(100), sig[1].publicPct)
                /\ sig = agentPublicMoney([g EXCEPT !.spreadLines = sq])

\* the RLM signals among the signals of agentSharpMoney
C22_RLM(game) == Filter(agentSharpMoney(game), LAMBDA s : s.type = "RLM")

\* the spread lines of the sharp books of the game
C22_Sharp(game) == Filter(game.spreadLines, LAMBDA l : l.isSharp)

\* the mean away point of the lines
C22_AwayPoint(lines) == avg(Map(lines, LAMBDA l : l.awayPoint))

\* C22: agentSharpMoney returns an RLM signal, strong and naming the away team
\* as sharp side, exactly when sharp and non-sharp books both have spread
\* lines, the mean sharp away point exceeds the mean non-sharp away point by
\* more than 0.5, and the mean implied probability of the sharp books' home
\* prices exceeds that of the non-sharp books' home prices.
C22_RLMExactlyWhen ==
    pc \in {"parsed", "arbs", "done"} =>
        \A i \in 1..Len(games) :
            LET g == games[i]
                sharp == C22_Sharp(g)
                square == C21_Square(g)
                rlm == C22_RLM(g)
            IN  /\ Len(rlm) <= 1
                /\ Len(rlm) = 1 <=>
                      /\ sharp # <<>> /\ square # <<>>
                      /\ Gt(C22_AwayPoint(sharp), Add(C22_AwayPoint(square), Num(1, 2)))
                      /\ Gt(C21_Juice(sharp, "home"), C21_Juice(square, "home"))
                /\ \A k \in 1..Len(rlm) :
                      /\ rlm[k].signal = "strong"
                      /\ rlm[k].sharpSide = g.awayTeam
                      /\ rlm[k].rlmDetected

\* the juice_imbalance signals among the signals of agentSharpMoney
C23_Juice(game) == Filter(agentSharpMoney(game), LAMBDA s : s.type = "juice_imbalance")

\* the juice_imbalance signal of the games is there exactly when the game
\* has at least atLeast spread lines and the mean home and the mean away
\* implied probability over all of them differ by more than 0.04; it names the
\* team with the higher mean as public side and the other as sharp side, has
\* rlmDetected false, and is strong above a gap of 0.07, moderate otherwise
C23_JuiceFrom(atLeast) ==
    \A i \in 1..Len(games) :
        LET g == games[i]
            sl == g.spreadLines
            juice == C23_Juice(g)
            home == C21_Juice(sl, "home")
            away == C21_Juice(sl, "away")
            gap == IF Lt(home, away) THEN Sub(away, home) ELSE Sub(home, away)
        IN  /\ Len(juice) <= 1
            /\ Len(juice) = 1 <=> (Len(sl) >= atLeast /\ Gt(gap, Num(4, 100)))
            /\ \A k \in 1..Len(juice) :
                  /\ juice[k].publicSide = (IF Gt(home, away) THEN g.homeTeam
                                            ELSE g.awayTeam)
                  /\ juice[k].sharpSide = (IF Gt(home, away) THEN g.awayTeam
                                           ELSE g.homeTeam)
                  /\ ~juice[k].rlmDetected
                  /\ juice[k].signal = (IF Gt(gap, Num(7, 100)) THEN "strong"
                                        ELSE "moderate")

\* C23 as it holds: whether or not there is an RLM signal, agentSharpMoney
\* returns a juice_imbalance signal exactly when the game has at least 2
\* spread lines and, over the spread lines of all its books, the mean home and
\* the mean away implied probability differ by more than 0.04; public side the
\* heavier-juiced team, sharp side the other, rlmDetected false, strong above
\* 0.07 and moderate otherwise.
C23_JuiceImbalance ==
    pc \in {"parsed", "arbs", "done"} => C23_JuiceFrom(2)

\* C23 witness: a game with an RLM signal followed by a juice_imbalance signal
C23_Witness ==
    /\ pc = "done"
    /\ \E i \in 1..Len(games) :
          /\ Len(C22_RLM(games[i])) = 1
          /\ Len(C23_Juice(games[i])) = 1
          /\ Len(agentSharpMoney(games[i])) = 2
          /\ agentSharpMoney(games[i])[2].type = "juice_imbalance"

\* C23 as stated: the juice_imbalance signal is returned exactly when the gap
\* is above 0.04, for any number of books with a spread line.
C23_JuiceAnyNumberOfBooks ==
    pc \in {"parsed", "arbs", "done"} => C23_JuiceFrom(1)

\* the game has an injury flag whose text holds the words
C24_Flag(game, words) ==
    \E k \in 1..Len(agentInjury(game).flags) :
        \E n \in 1..Len(agentInjury(game).flags[k].flag) :
            agentInjury(game).flags[k].flag[n] = words

\* C24: agentInjury raises 'verify roster' exactly when the away spread is
\* above 14 points, 'heavy juice' exactly when a moneyline price of the game,
\* home or away, is below -135, and 'high spread variance' exactly when the
\* game has at least 3 spread lines whose away points differ by 2 or more; a
\* game with moneyline lines and no spread line is checked for heavy juice.
C24_InjuryFlags ==
    pc \in {"parsed", "arbs", "done"} =>
        \A i \in 1..Len(games) :
            LET g == games[i]
                sl == g.spreadLines
                ml == g.mlLines
            IN  /\ C24_Flag(g, "large underdogs - verify roster")
                      <=> (Len(sl) >= 1 /\ Gt(sl[1].awayPoint, Z(14)))
                /\ C24_Flag(g, "Heavy juice - may reflect injury news")
                      <=> \E m \in 1..Len(ml) : \/ Lt(ml[m].homePrice, Z(-135))
                                                \/ Lt(ml[m].awayPrice, Z(-135))
                /\ C24_Flag(g, "High spread variance - market reacting to news")
                      <=> /\ Len(sl) >= 3
                          /\ \E a, b \in 1..Len(sl) :
                                Ge(Sub(sl[a].awayPoint, sl[b].awayPoint), Z(2))

\* a flag of agentInjury is due for the game: the first spread line has the
\* away team above +14 or a price below -135, or 3 lines or more are 2 points
\* or more apart
C25_FlagDue(game) ==
    LET sl == game.spreadLines
    IN  /\ Len(sl) >= 1
        /\ \/ Gt(sl[1].awayPoint, Z(14))
           \/ Lt(sl[1].homePrice, Z(-135))
           \/ Lt(sl[1].awayPrice, Z(-135))
           \/ /\ Len(sl) >= 3
              /\ \E a, b \in 1..Len(sl) : Ge(Sub(sl[a].awayPoint, sl[b].awayPoint), Z(2))

\* the penalty of the table for a lineImpact; nothing in the scorer answers to
\* high_impact
C25_Penalty(lineImpact) == IF lineImpact = "check_reports" THEN 10 ELSE 0

\* C25: lineImpact is one of none, check_reports, high_impact; it is none
\* exactly when no flag is raised (the flags then hold the one entry of
\* severity none); and the score of every value pick of the game is the sum of
\* the other contributions of the table minus 10 when lineImpact is
\* check_reports, minus nothing when it is none.
C25_InjuryPenalty ==
    pc \in {"parsed", "arbs", "done"} =>
        \A i \in 1..Len(games) :
            LET g == games[i]
                inj == agentInjury(g)
                sig == Signals(g, lineHistory)
            IN  /\ inj.lineImpact \in {"none", "check_reports", "high_impact"}
                /\ inj.lineImpact = "none" <=> ~C25_FlagDue(g)
                /\ inj.lineImpact = "none" <=>
                      (Len(inj.flags) = 1 /\ inj.flags[1].severity = "none")
                /\ \A k \in 1..Len(inj.flags) :
                      inj.lineImpact # "none" => inj.flags[k].severity # "none"
                /\ \A k \in 1..Len(sig.value) :
                      LET t == C14_Table(sig.value[k], sig)
                          c == Candidate(g, sig.value[k], sig, lineHistory)
                      IN  c.score = Add(t.value,
                                        Z(t.line + t.public + t.sharp + t.sit
                                          - C25_Penalty(inj.lineImpact)))

\* the value pick of its game behind the candidate c
C25_ValuePick(c) ==
    LET v == agentValue(c.game)
    IN  v[CHOOSE k \in 1..Len(v) : v[k].bet = c.bet]

\* C25 witness: a list with a flagged game, lineImpact check_reports, one of
\* whose value picks was emitted 10 points down, and a game without flag one
\* of whose value picks was emitted with no penalty
C25_Witness ==
    /\ pc = "done"
    /\ \E i, j \in 1..Len(games) :
          /\ agentInjury(games[i]).lineImpact = "check_reports"
          /\ agentInjury(games[j]).lineImpact = "none"
          /\ \E a, b \in 1..Len(out.candidates) :
                LET ca == out.candidates[a]
                    cb == out.candidates[b]
                    ta == C14_Table(C25_ValuePick(ca), Signals(games[i], lineHistory))
                IN  /\ ca.game = games[i] /\ cb.game = games[j]
                    /\ a <= Len(out.picks) /\ b <= Len(out.picks)
                    /\ ca.score = Add(ta.value, Z(ta.line + ta.public + ta.sharp + ta.sit - 10))

\* the game cut down to its first spread line and its first moneyline line
C26_FirstLines(game) ==
    [game EXCEPT !.spreadLines = IF @ = <<>> THEN <<>> ELSE <<@[1]>>,
                 !.mlLines = IF @ = <<>> THEN <<>> ELSE <<@[1]>>]

\* the signals of agentSituational with the given edge
C26_Edges(game, edge) == Filter(agentSituational(game), LAMBDA s : s.edge = edge)

\* C26: agentSituational returns 'road underdog' exactly when the first spread
\* line has the away point above 0 (strong above 6, moderate above 3, weak
\* otherwise), 'home chalk fade' on the away team exactly when the first
\* spread line has the home point below -9, and 'big dog ML value' exactly
\* when the first moneyline line has the away price above +160; the later
\* lines of the game do not change what it returns.
C26_Situational ==
    pc \in {"parsed", "arbs", "done"} =>
        \A i \in 1..Len(games) :
            LET g == games[i]
                sl == g.spreadLines
                ml == g.mlLines
                road == C26_Edges(g, "Road underdog spot")
                fade == C26_Edges(g, "Large home chalk fade")
                dog == C26_Edges(g, "Big underdog ML value")
            IN  /\ Len(road) <= 1 /\ Len(fade) <= 1 /\ Len(dog) <= 1
                /\ Len(road) + Len(fade) + Len(dog) = Len(agentSituational(g))
                /\ Len(road) = 1 <=> (Len(sl) >= 1 /\ Gt(sl[1].awayPoint, Z(0)))
                /\ \A k \in 1..Len(road) :
                      /\ road[k].side = g.awayTeam
                      /\ road[k].strength =
                            (IF Gt(sl[1].awayPoint, Z(6)) THEN "strong"
                             ELSE IF Gt(sl[1].awayPoint, Z(3)) THEN "moderate" ELSE "weak")
                /\ Len(fade) = 1 <=> (Len(sl) >= 1 /\ Lt(sl[1].homePoint, Z(-9)))
                /\ \A k \in 1..Len(fade) : fade[k].side = g.awayTeam
                /\ Len(dog) = 1 <=> (Len(ml) >= 1 /\ Gt(ml[1].awayPrice, Z(160)))
                /\ agentSituational(g) = agentSituational(C26_FirstLines(g))

-----------------------------------------------------------------------------
(* Properties of what is shown to the bettor (SpecPipe) *)

\* some final margin (home score minus away score, an integer) loses both
\* legs: the away team fails to cover awayLine and the home team homeLine
C27_BothLegsLose(arb) ==
    Lt(Add(Floor(arb.awayLine), Z(1)), Neg(arb.homeLine))

\* C27: every spread opportunity reported pairs an away leg and a home leg on
\* the same number, awayLine = -homeLine, and no final margin loses both legs.
C27_SameNumber ==
    pc \in {"arbs", "done"} =>
        \A k \in 1..Len(out.arbs) :
            out.arbs[k].type = "spread" =>
                /\ out.arbs[k].awayLine = Neg(out.arbs[k].homeLine)
                /\ ~C27_BothLegsLose(out.arbs[k])

\* some spread line of the candidate's game offers the point of the bet text
\* at the odds shown, on the side of the candidate's team
C28_Offered(c) ==
    \E m \in 1..Len(c.game.spreadLines) :
        LET l == c.game.spreadLines[m]
        IN  IF c.team = c.game.homeTeam
            THEN l.homePoint = c.bet[3] /\ l.homePrice = c.odds[2]
            ELSE l.awayPoint = c.bet[3] /\ l.awayPrice = c.odds[2]

\* C28: for every spread pick emitted, the point of the bet text and the odds
\* shown are offered together by some book of the game.
C28_PointAndOddsOffered ==
    pc = "done" =>
        \A k \in 1..Len(out.picks) :
            out.picks[k].betType = "spread" =>
                /\ out.picks[k].bet = out.candidates[k].bet
                /\ out.picks[k].odds = out.candidates[k].odds
                /\ C28_Offered(out.candidates[k])

-----------------------------------------------------------------------------
(* Properties of the line history (SpecRecord) *)

\* the three arrays of every game have one length, and each recorded
\* timestamp is more than 300000 ms after the one before
C29_Shape(hist) ==
    \A id \in DOMAIN hist :
        LET h == hist[id]
        IN  /\ Len(h.lines) = Len(h.timestamps)
            /\ Len(h.books) = Len(h.timestamps)
            /\ \A n \in 1..(Len(h.timestamps) - 1) :
                  /\ h.timestamps[n] < h.timestamps[n + 1]
                  /\ h.timestamps[n + 1] - h.timestamps[n] > 300000

\* a step leaves the history of a game as it is when the last point of the
\* game is 300000 ms old or less, and otherwise adds at most one point to it,
\* stamped with the clock; no step takes a point away or changes one
C29_Step ==
    \A id \in DOMAIN lineHistory' :
        LET old == HistoryOf(lineHistory, id)
            new == lineHistory'[id]
            n == Len(old.timestamps)
        IN  /\ (n > 0 /\ clock - old.timestamps[n] <= 300000) => new = old
            /\ \/ new = old
               \/ /\ Len(new.timestamps) = n + 1
                  /\ SubSeq(new.timestamps, 1, n) = old.timestamps
                  /\ SubSeq(new.lines, 1, n) = old.lines
                  /\ SubSeq(new.books, 1, n) = old.books
                  /\ new.timestamps[n + 1] = clock

\* C29: after any sequence of recordLineMovement calls under a clock that
\* does not go back, for every game of the line history the arrays
\* timestamps, lines and books have the same length, the timestamps increase
\* strictly, two consecutive ones are more than 300000 ms apart, and a call
\* within 300000 ms of the game's last point, from whichever book, leaves the
\* history unchanged.
C29_OnePointPerWindow == [](C29_Shape(lineHistory)) /\ [][C29_Step]_vars

\* C29 witness: a game with points recorded 300001 ms apart from two
\* different books, and another game whose only point is less than 300000 ms
\* old at a time when calls have been made for it
C29_Witness ==
    /\ pc = "record"
    /\ \E id \in DOMAIN lineHistory :
          LET h == lineHistory[id]
          IN  /\ Len(h.timestamps) >= 2
              /\ h.timestamps[2] - h.timestamps[1] = 300001
              /\ h.books[1] # h.books[2]
    /\ \E id \in DOMAIN lineHistory :
          LET h == lineHistory[id]
          IN  /\ Len(h.timestamps) = 1
              /\ clock > h.timestamps[1]
              /\ clock - h.timestamps[1] <= 300000

-----------------------------------------------------------------------------
(* C30: the daily limit of the tier-limited scan under concurrent requests  *)

\* the scans of the user served under the daily counter that was reset at
\* the instant at
C30_Served(userId, at) ==
    Cardinality({i \in 1..Len(out) :
        /\ out[i].userId = userId
        /\ out[i].res.status = 200
        /\ out[i].picksResetAt = at})

C30_PicksPerDay(userId) == TIERS[getUserTier(userId, clock)].picksPerDay

\* between two resets no more scans are served than picksPerDay, picksToday
\* counts the scans served since the last reset, and no response reports
\* remainingPicks below zero
C30_Limit ==
    /\ \A userId \in DOMAIN users :
          /\ \A at \in 1..Len(Calendar) :
                C30_Served(userId, at) <= C30_PicksPerDay(userId)
          /\ users[userId].picksToday =
                C30_Served(userId, users[userId].picksResetAt)
          /\ users[userId].picksToday <= C30_PicksPerDay(userId)
    /\ \A i \in 1..Len(out) :
          out[i].res.status = 200 => out[i].res.remainingPicks >= 0

\* one response more: a served scan found the counter of the day below
\* picksPerDay, raised it by exactly 1 and reports what is left of the day; a
\* refused scan left the counter what it was
C30_Step ==
    Len(out') = Len(out) + 1 =>
        LET sent == out'[Len(out')]
            userId == sent.userId
            counter == IF ResetDue(users[userId], clock) THEN 0
                       ELSE users[userId].picksToday
        IN  /\ sent.res.status = 200 =>
                /\ counter < C30_PicksPerDay(userId)
                /\ users'[userId].picksToday = counter + 1
                /\ sent.res.remainingPicks =
                      C30_PicksPerDay(userId) - users'[userId].picksToday
            /\ sent.res.status = 403 =>
                /\ users'[userId].picksToday = users[userId].picksToday
                /\ users[userId].picksToday >= C30_PicksPerDay(userId)
            /\ sent.res.status = 401 => users' = users

\* C30: under any interleaving of the concurrent requests of a user whose
\* effective tier stays the same, the scans served between two resets of the
\* daily counter never exceed the tier's picksPerDay: a scan is served only
\* when picksToday < picksPerDay, a served scan increases picksToday by
\* exactly 1, a refused scan (403) leaves it unchanged, and remainingPicks is
\* never negative.
C30_DailyLimit == [](C30_Limit) /\ [][C30_Step]_vars

\* three requests of a FREE user were in flight together: two were served,
\* the third was refused, a scan was served again after the reset of the
\* next day, and one more request is awaiting its tier
C30_Witness ==
    /\ \E userId \in DOMAIN users :
          /\ C30_PicksPerDay(userId) = 2
          /\ \E i, j, k, l \in 1..Len(out) :
                /\ i < j /\ j < k /\ k < l
                /\ out[i].userId = userId /\ out[i].res.status = 200
                /\ out[j].userId = userId /\ out[j].res.status = 200
                /\ out[k].userId = userId /\ out[k].res.status = 403
                /\ out[l].userId = userId /\ out[l].res.status = 200
                /\ out[i].picksResetAt = out[k].picksResetAt
                /\ out[l].picksResetAt # out[k].picksResetAt
                /\ out[l].res.remainingPicks = 1
                /\ out[i].inFlight = 3 /\ out[j].inFlight = 2
                /\ out[k].inFlight = 1
    /\ Cardinality(InFlight) = 1

=============================================================================
